---- MODULE Spec2Model ----
(***************************************************************************)
(* Model of the MIGA experiment controller: ExperimentManager (start_scan, *)
(* stop_scan, the acquisition and the processing worker threads joined by  *)
(* data_queue) and the DataManager run session it drives.                  *)
(***************************************************************************)
EXTENDS Integers, Sequences, FiniteSets, TLC

\* Bounds of the model.
MaxSweeps == 2
MaxPoints == 1

Sweeps == 1..MaxSweeps

\* What the two acquired traces of a job look like to the processing loop:
\* both non-empty and within the voltage limit, one of them empty, or the
\* net amplitude of one of them above the voltage limit. Nothing reads the
\* traces of a job before the processing loop handles it, so the model
\* draws them when the job is handled.
TraceKinds == {"ok", "empty", "over"}

\* The functions that app/analysis/physics.py defines.
PhysicsExports ==
    {"calc_arrival_time", "calculate_atom_numbers", "calculate_probabilities",
     "calculate_temperature", "calc_velocity_from_frequency"}

VARIABLES
    status,          \* ExperimentManager.status (ExperimentStatus)
    stop_flag,       \* ExperimentManager.stop_flag
    data_queue,      \* ExperimentManager.data_queue, head first
    on_data_ready,   \* TRUE iff a publish sink is registered
    acq_threads,     \* the acquisition thread started for each sweep
    proc_threads,    \* the processing thread started for each sweep
    current_run_dir, \* DataManager.current_run_dir (0 = None)
    csv_handle,      \* DataManager.csv_handle (0 = None, else the run it is open on)
    run_count,       \* number of run directories on disk
    results_csv,     \* rows appended to the runs' result tables
    waveforms,       \* waveform bundles written
    response,        \* what the last controller call returned
    enqueued,        \* per acquisition thread, what it has put on the queue so far
    handled,         \* the job the live processing thread handled last and the calls made
    stop_info,       \* per live acquisition thread, what it did since a stop request
    call,            \* the call of a function or method examined on its own, with its arguments
    returned         \* what that call returned

vars == <<status, stop_flag, data_queue, on_data_ready, acq_threads, proc_threads,
          current_run_dir, csv_handle, run_count, results_csv, waveforms,
          response, enqueued, handled, stop_info, call, returned>>

worker_vars == <<acq_threads, proc_threads>>
disk_vars == <<current_run_dir, csv_handle, run_count, results_csv, waveforms>>
history_vars == <<enqueued, handled, stop_info>>
pure_vars == <<call, returned>>
manager_vars == <<status, stop_flag, data_queue, on_data_ready, worker_vars, response,
                  history_vars>>

\* ExperimentStatus()
IdleStatus == [is_running |-> FALSE, current_step |-> 0, total_steps |-> 0, message |-> "IDLE"]

\* An acquisition thread: where it is, its loop index and list length, the
\* result of its last run_sequence call, and how many times it has called
\* run_sequence (ran) and acquire_channel (acquired).
NoAcq == [pc |-> "none", idx |-> 0, total |-> 0, success |-> FALSE, ran |-> 0, acquired |-> 0]
NoProc == [pc |-> "none"]
NoStop == [requested |-> FALSE, started |-> 0, put |-> 0]
\* Nothing put yet: no sentinel, and no last item (-2).
NoPut == [sentinels |-> 0, last |-> -2]
\* No job handled yet.
NoPoint == [n |-> 0, src |-> 0, step |-> 0, total |-> 0, kind |-> "None", calls |-> <<>>,
            result_step |-> 0, saved_step |-> 0]
\* An acquisition thread that has ended: its locals are gone.
\* No function is examined on its own.
NoCall == [fn |-> "none"]
NotReturned == [fn |-> "none"]
EndedAcq(how) ==
    [pc |-> how, idx |-> 0, total |-> 0, success |-> FALSE, ran |-> 0, acquired |-> 0]

\* The end-of-stream item (None) and a job, as data_queue carries them.
\* src is the sweep whose acquisition thread put the item.
Sentinel(s) == [src |-> s, idx |-> -1, total |-> 0]
Job(s, i, n) == [src |-> s, idx |-> i, total |-> n]
IsSentinel(item) == item.idx = -1

Init ==
    /\ status = IdleStatus
    /\ stop_flag = FALSE
    /\ data_queue = <<>>
    /\ on_data_ready = FALSE
    /\ acq_threads = [s \in Sweeps |-> NoAcq]
    /\ proc_threads = [s \in Sweeps |-> NoProc]
    /\ current_run_dir = 0
    /\ csv_handle = 0
    /\ run_count = 0
    /\ results_csv = <<>>
    /\ waveforms = {}
    /\ response = [op |-> "none", status |-> "none", message |-> "none"]
    /\ enqueued = [s \in Sweeps |-> NoPut]
    /\ handled = NoPoint
    /\ stop_info = [s \in Sweeps |-> NoStop]
    /\ call = NoCall
    /\ returned = NotReturned

\* The sweep whose processing thread has been started and has not set
\* is_running back to false.
RunningSweeps == {s \in Sweeps : proc_threads[s].pc \notin {"none", "done"}}

(***************************************************************************)
(* main.py startup_event: the WebSocket bridge is registered as the sink.  *)
(* The hook runs when the server starts, before it serves a request; a     *)
(* manager used without the server never gets a sink.                      *)
(***************************************************************************)
startup_event ==
    /\ UNCHANGED pure_vars
    /\ ~on_data_ready
    /\ response.op = "none"
    /\ on_data_ready' = TRUE
    /\ UNCHANGED <<status, stop_flag, data_queue, worker_vars, disk_vars, response, history_vars>>

(***************************************************************************)
(* ExperimentManager.start_scan                                            *)
(***************************************************************************)
\* _generate_parameters: the scan configuration either expands to a list
\* of n tuples or raises (malformed list string, formula error).
ScanConfigs == [valid : BOOLEAN, points : 0..MaxPoints]
GenerateParameters(cfg) ==
    [raised |-> ~cfg.valid,
     full_scan |-> [i \in 1..(IF cfg.valid THEN cfg.points ELSE 0) |-> i]]

StartResponse(st, msg) == [op |-> "start_scan", status |-> st, message |-> msg]

\* start_scan with the stop flag cleared before is_running is looked at.
start_scan_running_clears_flag ==
    /\ UNCHANGED pure_vars
    /\ status.is_running
    /\ stop_flag' = FALSE
    /\ response' = StartResponse("error", "Experiment already running")
    /\ UNCHANGED <<status, data_queue, on_data_ready, worker_vars, disk_vars, history_vars>>

\* line 107: a sweep is running.
start_scan_running ==
    /\ UNCHANGED pure_vars
    /\ status.is_running
    /\ response' = StartResponse("error", "Experiment already running")
    /\ UNCHANGED <<status, stop_flag, data_queue, on_data_ready, worker_vars, disk_vars, history_vars>>

\* lines 134-135: parameter generation raises.
start_scan_param_error ==
    /\ UNCHANGED pure_vars
    /\ ~status.is_running
    /\ \E cfg \in ScanConfigs :
          /\ GenerateParameters(cfg).raised
          /\ response' = StartResponse("error", "Param generation failed")
    /\ UNCHANGED <<status, stop_flag, data_queue, on_data_ready, worker_vars, disk_vars, history_vars>>

\* DataManager.init_run raising at one of its steps: before the run
\* directory is recorded, after it is recorded and before the table is
\* opened, or while the header row is written to the opened table.
InitRunFailPoints == {"makedirs", "config_json", "header"}

\* start_scan with the processing thread started before init_run is called.
start_scan_init_error_thread_first ==
    /\ UNCHANGED pure_vars
    /\ ~status.is_running
    /\ run_count < MaxSweeps
    /\ \E cfg \in ScanConfigs :
          /\ ~GenerateParameters(cfg).raised
          /\ stop_flag' = FALSE
          /\ status' = [is_running |-> TRUE, current_step |-> 0,
                        total_steps |-> Len(GenerateParameters(cfg).full_scan),
                        message |-> "Starting..."]
          /\ proc_threads' = [proc_threads EXCEPT ![run_count + 1] = [pc |-> "get"]]
          /\ response' = StartResponse("error", "Data Init Failed")
    /\ UNCHANGED <<data_queue, on_data_ready, acq_threads, disk_vars, history_vars>>

\* lines 137-143: init_run raises.
start_scan_init_error ==
    /\ UNCHANGED pure_vars
    /\ ~status.is_running
    /\ run_count < MaxSweeps
    /\ \E cfg \in ScanConfigs, fp \in InitRunFailPoints :
          /\ ~GenerateParameters(cfg).raised
          /\ stop_flag' = FALSE
          /\ status' = [is_running |-> TRUE, current_step |-> 0,
                        total_steps |-> Len(GenerateParameters(cfg).full_scan),
                        message |-> "Starting..."]
          /\ current_run_dir' = IF fp = "makedirs" THEN current_run_dir ELSE run_count + 1
          /\ run_count' = IF fp = "makedirs" THEN run_count ELSE run_count + 1
          /\ csv_handle' = IF fp = "header" THEN run_count + 1 ELSE csv_handle
          /\ response' = StartResponse("error", "Data Init Failed")
    /\ UNCHANGED <<data_queue, on_data_ready, worker_vars, results_csv, waveforms, history_vars>>

\* lines 105-162: the sweep starts.
start_scan_ok ==
    /\ UNCHANGED pure_vars
    /\ ~status.is_running
    /\ run_count < MaxSweeps
    /\ \E cfg \in ScanConfigs :
          /\ ~GenerateParameters(cfg).raised
          /\ LET parameters == GenerateParameters(cfg).full_scan
                 s == run_count + 1
             IN /\ stop_flag' = FALSE
                /\ status' = [is_running |-> TRUE, current_step |-> 0,
                              total_steps |-> Len(parameters), message |-> "Starting..."]
                /\ current_run_dir' = s
                /\ csv_handle' = s
                /\ run_count' = s
                /\ data_queue' = <<>>
                /\ proc_threads' = [proc_threads EXCEPT ![s] = [pc |-> "get"]]
                /\ acq_threads' = [acq_threads EXCEPT ![s] =
                                      [NoAcq EXCEPT !.pc = "check", !.total = Len(parameters)]]
                /\ response' = StartResponse("success", "Scan started (Parallel)")
                /\ handled' = NoPoint
    /\ UNCHANGED <<on_data_ready, results_csv, waveforms, enqueued, stop_info>>

(***************************************************************************)
(* ExperimentManager.stop_scan                                             *)
(***************************************************************************)
stop_scan ==
    /\ UNCHANGED pure_vars
    /\ IF status.is_running
       THEN /\ stop_flag' = TRUE
            /\ status' = [status EXCEPT !.message = "Stopping..."]
            /\ response' = [op |-> "stop_scan", status |-> "success",
                            message |-> "Stop signal sent"]
            /\ stop_info' = [s \in Sweeps |->
                               IF s \in RunningSweeps /\ acq_threads[s].pc \notin {"done", "crashed"}
                               THEN [stop_info[s] EXCEPT !.requested = TRUE]
                               ELSE stop_info[s]]
            /\ UNCHANGED <<data_queue, on_data_ready, worker_vars, disk_vars, enqueued, handled>>
       ELSE /\ response' = [op |-> "stop_scan", status |-> "warning",
                            message |-> "No experiment running"]
            /\ UNCHANGED <<status, stop_flag, data_queue, on_data_ready, worker_vars, disk_vars,
                           history_vars>>

(***************************************************************************)
(* ExperimentManager._acquisition_loop, one thread per started sweep       *)
(***************************************************************************)
\* The loop head returning from the function when the stop flag is set.
AcqCheck_returns_on_stop(s) ==
    /\ UNCHANGED pure_vars
    /\ acq_threads[s].pc = "check"
    /\ LET a == acq_threads[s]
       IN /\ acq_threads' = [acq_threads EXCEPT ![s] =
                                IF stop_flag THEN EndedAcq("done")
                                ELSE [a EXCEPT !.pc = IF a.idx = a.total THEN "sentinel"
                                                      ELSE "tuple"]]
          /\ stop_info' = [stop_info EXCEPT ![s] =
                              IF stop_flag THEN NoStop
                              ELSE [stop_info[s] EXCEPT !.started =
                                      IF a.idx # a.total /\ stop_info[s].requested
                                      THEN @ + 1 ELSE @]]
    /\ UNCHANGED <<status, stop_flag, data_queue, on_data_ready, proc_threads, disk_vars,
                   response, enqueued, handled>>

\* line 492-493: the head of the for loop. The loop is left when the
\* parameter list is exhausted or the stop flag is set; otherwise the next
\* tuple is started.
AcqCheck(s) ==
    /\ UNCHANGED pure_vars
    /\ acq_threads[s].pc = "check"
    /\ LET a == acq_threads[s]
           leave == a.idx = a.total \/ stop_flag
       IN /\ acq_threads' = [acq_threads EXCEPT ![s].pc = IF leave THEN "sentinel" ELSE "tuple"]
          /\ stop_info' = [stop_info EXCEPT ![s].started =
                              IF ~leave /\ stop_info[s].requested THEN @ + 1 ELSE @]
    /\ UNCHANGED <<status, stop_flag, data_queue, on_data_ready, proc_threads, disk_vars,
                   response, enqueued, handled>>

\* The tuple is tried again when the executor reports failure.
AcqTuple_retries(s) ==
    /\ UNCHANGED pure_vars
    /\ acq_threads[s].pc = "tuple"
    /\ LET a == acq_threads[s]
       IN \E success \in BOOLEAN :
             /\ acq_threads' = [acq_threads EXCEPT ![s] =
                                   [a EXCEPT !.pc = "check",
                                             !.idx = IF success THEN a.idx + 1 ELSE a.idx,
                                             !.success = success, !.ran = a.ran + 1,
                                             !.acquired = IF success THEN a.acquired + 2
                                                          ELSE a.acquired]]
             /\ IF success
                THEN /\ data_queue' = Append(data_queue, Job(s, a.idx, a.total))
                     /\ enqueued' = [enqueued EXCEPT ![s].last = a.idx]
                     /\ stop_info' = [stop_info EXCEPT ![s].put =
                                         IF stop_info[s].requested THEN @ + 1 ELSE @]
                ELSE UNCHANGED <<data_queue, enqueued, stop_info>>
    /\ UNCHANGED <<status, stop_flag, on_data_ready, proc_threads, disk_vars, response, handled>>

\* lines 495-530: one tuple. The sequence is rendered and compiled, the
\* delay is computed and the sequence is executed; if the executor reports
\* failure the tuple is skipped, otherwise both channels are acquired and
\* the job is put on the queue.
AcqTuple(s) ==
    /\ UNCHANGED pure_vars
    /\ acq_threads[s].pc = "tuple"
    /\ LET a == acq_threads[s]
       IN \E success \in BOOLEAN :
             /\ acq_threads' = [acq_threads EXCEPT ![s] =
                                   [a EXCEPT !.pc = "check", !.idx = a.idx + 1,
                                             !.success = success, !.ran = a.ran + 1,
                                             !.acquired = IF success THEN a.acquired + 2
                                                          ELSE a.acquired]]
             /\ IF success
                THEN /\ data_queue' = Append(data_queue, Job(s, a.idx, a.total))
                     /\ enqueued' = [enqueued EXCEPT ![s].last = a.idx]
                     /\ stop_info' = [stop_info EXCEPT ![s].put =
                                         IF stop_info[s].requested THEN @ + 1 ELSE @]
                ELSE UNCHANGED <<data_queue, enqueued, stop_info>>
    /\ UNCHANGED <<status, stop_flag, on_data_ready, proc_threads, disk_vars, response, handled>>

\* A call made for the tuple raises (generate_sequence finds no template,
\* a settings key is missing): nothing in the loop catches it, the thread
\* ends.
AcqRaises(s) ==
    /\ UNCHANGED pure_vars
    /\ acq_threads[s].pc = "tuple"
    /\ acq_threads' = [acq_threads EXCEPT ![s] = EndedAcq("crashed")]
    /\ stop_info' = [stop_info EXCEPT ![s] = NoStop]
    /\ UNCHANGED <<status, stop_flag, data_queue, on_data_ready, proc_threads, disk_vars,
                   response, enqueued, handled>>

\* The loop ending without the put of line 532.
AcqSentinel_no_put(s) ==
    /\ UNCHANGED pure_vars
    /\ acq_threads[s].pc = "sentinel"
    /\ acq_threads' = [acq_threads EXCEPT ![s] = EndedAcq("done")]
    /\ stop_info' = [stop_info EXCEPT ![s] = NoStop]
    /\ UNCHANGED <<status, stop_flag, data_queue, on_data_ready, proc_threads, disk_vars,
                   response, enqueued, handled>>

\* line 532: data_queue.put(None)
AcqSentinel(s) ==
    /\ UNCHANGED pure_vars
    /\ acq_threads[s].pc = "sentinel"
    /\ data_queue' = Append(data_queue, Sentinel(s))
    /\ enqueued' = [enqueued EXCEPT ![s] = [sentinels |-> @.sentinels + 1, last |-> -1]]
    /\ acq_threads' = [acq_threads EXCEPT ![s] = EndedAcq("done")]
    /\ stop_info' = [stop_info EXCEPT ![s] = NoStop]
    /\ UNCHANGED <<status, stop_flag, on_data_ready, proc_threads, disk_vars, response,
                   handled>>

(***************************************************************************)
(* DataManager.save_point and close_run                                    *)
(***************************************************************************)
\* What can go wrong inside the per-point body of the processing loop:
\* nothing, writing the table row fails, writing the waveform bundle
\* fails, the sink raises.
Faults == {"none", "csv", "npz", "sink"}

\* save_point(result, step_index): the row goes to the open table, then the
\* bundle goes to the waveforms directory of the current run. The result
\* is the new table, the new bundles and whether the call raised.
SavePoint(step_index, fault) ==
    IF current_run_dir = 0
    THEN [csv |-> results_csv, npz |-> waveforms, raised |-> FALSE]
    ELSE IF fault = "csv" \/ csv_handle = 0
    THEN [csv |-> results_csv, npz |-> waveforms, raised |-> TRUE]
    ELSE IF fault = "npz"
    THEN [csv |-> Append(results_csv, [run |-> csv_handle, step |-> step_index]),
          npz |-> waveforms, raised |-> TRUE]
    ELSE [csv |-> Append(results_csv, [run |-> csv_handle, step |-> step_index]),
          npz |-> waveforms \cup {[run |-> current_run_dir, step |-> step_index]},
          raised |-> FALSE]

\* close_run
CloseRun == 0

(***************************************************************************)
(* ExperimentManager._processing_loop, one thread per started sweep        *)
(***************************************************************************)
\* lines 556-717, the body for one dequeued job: the calls it makes, in
\* order, and what save_point leaves on disk. A job with an empty trace
\* is only reported; a job over the voltage limit is reported from inside
\* the try block, where a raising sink is caught at line 716 ("except");
\* any other job is fitted, calibrated, saved and published, and whatever
\* raises on the way is caught at line 716. result_step is current_step of
\* the ScanResult built at line 686 and saved_step the step index passed to
\* save_point at line 707 (0: not built, not called).
ProcessPoint_over_is_fitted(job, kind, fault) ==
    LET nothing == [csv |-> results_csv, npz |-> waveforms]
        report == IF on_data_ready THEN <<"on_data_ready(error)">> ELSE <<>>
        metrics == <<"perform_odr_fit", "calculate_atom_numbers", "calculate_temperature",
                     "calculate_probabilities">>
    IN  IF kind = "empty"
        THEN [calls |-> report, disk |-> nothing, result_step |-> 0, saved_step |-> 0]
        ELSE [calls |-> metrics \o <<"AttributeError">>, disk |-> nothing,
              result_step |-> 0, saved_step |-> 0]

ProcessPoint(job, kind, fault) ==
    LET nothing == [csv |-> results_csv, npz |-> waveforms]
        report == IF on_data_ready THEN <<"on_data_ready(error)">> ELSE <<>>
        caught == IF on_data_ready /\ fault = "sink" THEN <<"except">> ELSE <<>>
        metrics == <<"perform_odr_fit", "calculate_atom_numbers", "calculate_temperature",
                     "calculate_probabilities">>
        saved == SavePoint(job.idx + 1, fault)
    IN  IF kind = "empty"
        THEN [calls |-> report, disk |-> nothing, result_step |-> 0, saved_step |-> 0]
        ELSE IF kind = "over"
        THEN [calls |-> report \o caught, disk |-> nothing, result_step |-> 0, saved_step |-> 0]
        ELSE IF "calculate_interferometer_output" \notin PhysicsExports
        THEN [calls |-> metrics \o <<"AttributeError">>, disk |-> nothing,
              result_step |-> 0, saved_step |-> 0]
        ELSE [calls |-> metrics \o <<"calculate_interferometer_output", "save_point">>
                          \o (IF ~saved.raised /\ on_data_ready
                              THEN <<"on_data_ready(result)">> ELSE <<>>),
              disk |-> [csv |-> saved.csv, npz |-> saved.npz],
              result_step |-> job.idx + 1, saved_step |-> job.idx + 1]

Handled(before, job, kind, point) ==
    [n |-> before.n + 1, src |-> job.src, step |-> job.idx + 1, total |-> job.total,
     kind |-> kind, calls |-> point.calls, result_step |-> point.result_step,
     saved_step |-> point.saved_step]

ProcessingStatus(job) ==
    [status EXCEPT !.current_step = job.idx + 1, !.total_steps = job.total,
                   !.message = "Processing"]

\* lines 542-545: the get times out on an empty queue; the loop is left
\* if the stop flag is set and goes round again otherwise.
ProcTimeout(s) ==
    /\ UNCHANGED pure_vars
    /\ proc_threads[s].pc = "get"
    /\ data_queue = <<>>
    /\ proc_threads' = [proc_threads EXCEPT ![s].pc = IF stop_flag THEN "close" ELSE "get"]
    /\ UNCHANGED <<status, stop_flag, data_queue, on_data_ready, acq_threads, disk_vars,
                   response, history_vars>>

\* The loop left on the sentinel without the close_run of line 719.
ProcSentinel_skips_close(s) ==
    /\ UNCHANGED pure_vars
    /\ proc_threads[s].pc = "get"
    /\ data_queue # <<>>
    /\ IsSentinel(Head(data_queue))
    /\ data_queue' = Tail(data_queue)
    /\ proc_threads' = [proc_threads EXCEPT ![s].pc = "finish"]
    /\ UNCHANGED <<status, stop_flag, on_data_ready, acq_threads, disk_vars, response,
                   history_vars>>

\* line 546: the sentinel is dequeued.
ProcSentinel(s) ==
    /\ UNCHANGED pure_vars
    /\ proc_threads[s].pc = "get"
    /\ data_queue # <<>>
    /\ IsSentinel(Head(data_queue))
    /\ data_queue' = Tail(data_queue)
    /\ proc_threads' = [proc_threads EXCEPT ![s].pc = "close"]
    /\ UNCHANGED <<status, stop_flag, on_data_ready, acq_threads, disk_vars, response,
                   history_vars>>

\* lines 548-717: a job is dequeued and handled.
ProcJob(s) ==
    /\ UNCHANGED pure_vars
    /\ proc_threads[s].pc = "get"
    /\ data_queue # <<>>
    /\ ~IsSentinel(Head(data_queue))
    /\ LET job == Head(data_queue)
       IN \E kind \in TraceKinds, fault \in Faults :
             LET point == ProcessPoint(job, kind, fault)
             IN /\ data_queue' = Tail(data_queue)
                /\ status' = ProcessingStatus(job)
                /\ results_csv' = point.disk.csv
                /\ waveforms' = point.disk.npz
                /\ handled' = Handled(handled, job, kind, point)
    /\ UNCHANGED <<stop_flag, on_data_ready, worker_vars, current_run_dir, csv_handle,
                   run_count, response, enqueued, stop_info>>

\* lines 556-558: the job has an empty trace, a sink is registered and the
\* sink raises. The call is made outside the try block: the thread ends.
ProcNoDataSinkRaises(s) ==
    /\ UNCHANGED pure_vars
    /\ proc_threads[s].pc = "get"
    /\ data_queue # <<>>
    /\ ~IsSentinel(Head(data_queue))
    /\ on_data_ready
    /\ LET job == Head(data_queue)
       IN /\ data_queue' = Tail(data_queue)
          /\ status' = ProcessingStatus(job)
          /\ handled' = Handled(handled, job, "empty",
                                [calls |-> <<"on_data_ready(error)", "raised">>,
                                 result_step |-> 0, saved_step |-> 0])
    /\ proc_threads' = [proc_threads EXCEPT ![s].pc = "crashed"]
    /\ UNCHANGED <<stop_flag, on_data_ready, acq_threads, disk_vars, response, enqueued,
                   stop_info>>

\* line 719: data_manager.close_run()
ProcCloseRun(s) ==
    /\ UNCHANGED pure_vars
    /\ proc_threads[s].pc = "close"
    /\ csv_handle' = CloseRun
    /\ proc_threads' = [proc_threads EXCEPT ![s].pc = "finish"]
    /\ UNCHANGED <<status, stop_flag, data_queue, on_data_ready, acq_threads, current_run_dir,
                   run_count, results_csv, waveforms, response, history_vars>>

\* line 720: is_running = False, message = "Done"
ProcFinish(s) ==
    /\ UNCHANGED pure_vars
    /\ proc_threads[s].pc = "finish"
    /\ status' = [status EXCEPT !.is_running = FALSE, !.message = "Done"]
    /\ proc_threads' = [proc_threads EXCEPT ![s].pc = "done"]
    /\ handled' = NoPoint
    /\ UNCHANGED <<stop_flag, data_queue, on_data_ready, acq_threads, disk_vars, response,
                   enqueued, stop_info>>

(***************************************************************************)
(* The program                                                             *)
(***************************************************************************)
AcqStep(s) == AcqCheck(s) \/ AcqTuple(s) \/ AcqSentinel(s)
ProcStep(s) ==
    ProcTimeout(s) \/ ProcSentinel(s) \/ ProcJob(s) \/ ProcCloseRun(s) \/ ProcFinish(s)

Next ==
    \/ startup_event
    \/ start_scan_running
    \/ start_scan_param_error
    \/ start_scan_init_error
    \/ start_scan_ok
    \/ stop_scan
    \/ \E s \in Sweeps : AcqCheck(s)
    \/ \E s \in Sweeps : AcqTuple(s)
    \/ \E s \in Sweeps : AcqRaises(s)
    \/ \E s \in Sweeps : AcqSentinel(s)
    \/ \E s \in Sweeps : ProcTimeout(s)
    \/ \E s \in Sweeps : ProcSentinel(s)
    \/ \E s \in Sweeps : ProcJob(s)
    \/ \E s \in Sweeps : ProcNoDataSinkRaises(s)
    \/ \E s \in Sweeps : ProcCloseRun(s)
    \/ \E s \in Sweeps : ProcFinish(s)

Spec == Init /\ [][Next]_vars

\* The program when every hardware and collaborator call returns: init_run,
\* the calls of the acquisition loop and the sink raise nothing. The
\* start_scan calls that are turned away change nothing but the response
\* and are left out. Both worker threads are daemon threads of the
\* interpreter and are scheduled as long as they can take a step.
LiveNext ==
    \/ startup_event
    \/ start_scan_ok
    \/ stop_scan
    \/ \E s \in Sweeps : AcqCheck(s)
    \/ \E s \in Sweeps : AcqTuple(s)
    \/ \E s \in Sweeps : AcqSentinel(s)
    \/ \E s \in Sweeps : ProcTimeout(s)
    \/ \E s \in Sweeps : ProcSentinel(s)
    \/ \E s \in Sweeps : ProcJob(s)
    \/ \E s \in Sweeps : ProcCloseRun(s)
    \/ \E s \in Sweeps : ProcFinish(s)

LiveSpec ==
    /\ Init
    /\ [][LiveNext]_vars
    /\ \A s \in Sweeps : WF_vars(AcqStep(s))
    /\ \A s \in Sweeps : WF_vars(ProcStep(s))

(***************************************************************************)
(* DataManager on its own: init_run, save_point and close_run called       *)
(* directly, in any order, save_point with any step index and failing at   *)
(* any of its two writes.                                                  *)
(***************************************************************************)
MaxSaves == 3

DataManagerInit ==
    /\ status = IdleStatus
    /\ stop_flag = FALSE
    /\ data_queue = <<>>
    /\ on_data_ready = FALSE
    /\ acq_threads = [s \in Sweeps |-> NoAcq]
    /\ proc_threads = [s \in Sweeps |-> NoProc]
    /\ current_run_dir = 0
    /\ csv_handle = 0
    /\ run_count = 0
    /\ results_csv = <<>>
    /\ waveforms = {}
    /\ response = [op |-> "none", status |-> "none", message |-> "none"]
    /\ enqueued = [s \in Sweeps |-> NoPut]
    /\ handled = NoPoint
    /\ stop_info = [s \in Sweeps |-> NoStop]
    /\ call = [fn |-> "DataManager", saves |-> 0]
    /\ returned = NotReturned

\* init_run: a new run directory, its table opened with the header row.
init_run ==
    /\ run_count < MaxSweeps
    /\ current_run_dir' = run_count + 1
    /\ csv_handle' = run_count + 1
    /\ run_count' = run_count + 1
    /\ UNCHANGED <<results_csv, waveforms, manager_vars, pure_vars>>

\* save_point(result, step_index)
save_point ==
    /\ call.saves < MaxSaves
    /\ \E step_index \in 1..MaxPoints, fault \in {"none", "csv", "npz"} :
          LET saved == SavePoint(step_index, fault)
          IN /\ results_csv' = saved.csv
             /\ waveforms' = saved.npz
             /\ returned' = [fn |-> "save_point", raised |-> saved.raised]
    /\ call' = [call EXCEPT !.saves = @ + 1]
    /\ UNCHANGED <<current_run_dir, csv_handle, run_count, manager_vars>>

\* close_run
close_run ==
    /\ csv_handle # 0
    /\ csv_handle' = CloseRun
    /\ UNCHANGED <<current_run_dir, run_count, results_csv, waveforms, manager_vars, pure_vars>>

DataManagerNext == init_run \/ save_point \/ close_run

DataManagerSpec == DataManagerInit /\ [][DataManagerNext]_vars

(***************************************************************************)
(* ExperimentManager._generate_parameters on its own.                      *)
(* Numbers are decimal fixed-point: an integer n stands for n tenths of    *)
(* 1e-6, so that round(x, 6) and int(x) have something to remove. Sums,    *)
(* differences and products by an index are exact; the binary rounding of  *)
(* Python floats below 1e-7 is not modelled.                               *)
(***************************************************************************)
MaxValues == 3
MaxTuples == 4
MaxAverages == 2

\* 1e-6 and 1.0 in tenths of 1e-6.
Micro == 10
One == Micro * 1000000

Abs(x) == IF x < 0 THEN -x ELSE x

\* round(x, 6): the nearest multiple of 1e-6. An exact decimal tie, which
\* the inputs examined never produce, goes to the even one.
Round6(x) ==
    LET q == x \div Micro
        r == x - q * Micro
    IN  IF 2 * r < Micro THEN q * Micro
        ELSE IF 2 * r > Micro THEN (q + 1) * Micro
        ELSE IF q % 2 = 0 THEN q * Micro ELSE (q + 1) * Micro

\* int(x): the fraction is cut off, towards zero.
IntCast(x) == IF x >= 0 THEN (x \div One) * One ELSE -(((-x) \div One) * One)

\* x / 2.0 (the model's inputs keep it exact).
Halved(x) == x \div 2

\* A comma-separated list string, as the pieces that split(',') yields: a
\* piece is a number, blank (skipped) or text that float() rejects.
Num(n) == [piece |-> "number", value |-> n]
Blank == [piece |-> "blank", value |-> 0]
Junk == [piece |-> "junk", value |-> 0]

RECURSIVE ParseList(_)
ParseList(clist) ==
    IF clist = <<>> THEN [raised |-> FALSE, vals |-> <<>>]
    ELSE LET rest == ParseList(Tail(clist))
             x == Head(clist)
         IN  IF x.piece = "junk" \/ rest.raised THEN [raised |-> TRUE, vals |-> <<>>]
             ELSE IF x.piece = "blank" THEN rest
             ELSE [raised |-> FALSE, vals |-> <<x.value>> \o rest.vals]

\* lines 172-184: get_values
get_values(ptype, start, stop, step, clist, target_type) ==
    IF ptype = "list" THEN ParseList(clist)
    ELSE LET num == IF step = 0 THEN 1 ELSE (Abs(stop - start) \div Abs(step)) + 1
             raw_vals == [k \in 1..num |-> start + (k - 1) * step]
         IN  [raised |-> FALSE,
              vals |-> IF target_type = "int"
                       THEN [k \in 1..num |-> IntCast(raw_vals[k])]
                       ELSE [k \in 1..num |-> Round6(raw_vals[k])]]

\* A link formula: an expression over P0 that evaluates, or one that names
\* something the restricted context does not hold.
LinkFormulas == {"P0", "P0/2", "undefined_name"}
EvalFormula(formula_str, P0) ==
    IF formula_str = "P0" THEN [raised |-> FALSE, val |-> P0]
    ELSE IF formula_str = "P0/2" THEN [raised |-> FALSE, val |-> Halved(P0)]
    ELSE [raised |-> TRUE, val |-> 0]

\* The tuple of timing mode built without its second entry.
Coupled_timing_alone(v, mode, mode_param, link_formulas) ==
    IF mode = "rabi" THEN <<v, Round6(mode_param - Halved(v))>>
    ELSE IF mode = "half" THEN <<v, Round6(Halved(v))>>
    ELSE IF mode = "link"
    THEN <<v>> \o [i \in 1..Len(link_formulas) |-> Round6(EvalFormula(link_formulas[i], v).val)]
    ELSE <<v>>

\* lines 192-202: the tuple built for one dimension-1 value.
Coupled(v, mode, mode_param, link_formulas) ==
    IF mode = "timing" THEN <<v, Round6(mode_param - v)>>
    ELSE IF mode = "rabi" THEN <<v, Round6(mode_param - Halved(v))>>
    ELSE IF mode = "half" THEN <<v, Round6(Halved(v))>>
    ELSE IF mode = "link"
    THEN <<v>> \o [i \in 1..Len(link_formulas) |-> Round6(EvalFormula(link_formulas[i], v).val)]
    ELSE <<v>>

RECURSIVE Extend(_)
\* list.extend over a sequence of lists.
Extend(lists) == IF lists = <<>> THEN <<>> ELSE Head(lists) \o Extend(Tail(lists))

\* lines 203-206: sets_2
Sets2(config) ==
    IF config.dim2_enabled
    THEN LET vals_2 == get_values(config.dim2_type, config.dim2_start, config.dim2_stop,
                                  config.dim2_step, config.dim2_list, "float")
         IN  [raised |-> vals_2.raised,
              sets |-> [j \in 1..Len(vals_2.vals) |-> <<vals_2.vals[j]>>]]
    ELSE [raised |-> FALSE, sets |-> << <<>> >>]

\* The cross product built dimension 2 first.
generate_parameters_dim2_major(config) ==
    LET vals_1 == get_values(config.dim1_type, config.start, config.stop, config.step,
                             config.custom_list, config.param_type)
        formula_error == /\ config.mode = "link" /\ vals_1.vals # <<>>
                         /\ \E i \in 1..Len(config.link_formulas) :
                               EvalFormula(config.link_formulas[i], 0).raised
        sets_1 == [i \in 1..Len(vals_1.vals) |->
                      Coupled(vals_1.vals[i], config.mode, config.mode_param,
                              config.link_formulas)]
        sets_2 == Sets2(config)
        final_list == Extend([j \in 1..Len(sets_2.sets) |->
                                 [i \in 1..Len(sets_1) |-> sets_1[i] \o sets_2.sets[j]]])
        raised == vals_1.raised \/ formula_error \/ sets_2.raised
    IN  [raised |-> raised,
         full_scan |-> IF raised THEN <<>>
                       ELSE Extend([a \in 1..config.averages |-> final_list])]

\* lines 186-212: _generate_parameters up to the shuffle. A raised ValueError
\* leaves no list.
generate_parameters(config) ==
    LET vals_1 == get_values(config.dim1_type, config.start, config.stop, config.step,
                             config.custom_list, config.param_type)
        formula_error == /\ config.mode = "link" /\ vals_1.vals # <<>>
                         /\ \E i \in 1..Len(config.link_formulas) :
                               EvalFormula(config.link_formulas[i], 0).raised
        sets_1 == [i \in 1..Len(vals_1.vals) |->
                      Coupled(vals_1.vals[i], config.mode, config.mode_param,
                              config.link_formulas)]
        sets_2 == Sets2(config)
        final_list == Extend([i \in 1..Len(sets_1) |->
                                 [j \in 1..Len(sets_2.sets) |-> sets_1[i] \o sets_2.sets[j]]])
        raised == vals_1.raised \/ formula_error \/ sets_2.raised
    IN  [raised |-> raised,
         full_scan |-> IF raised THEN <<>>
                       ELSE Extend([a \in 1..config.averages |-> final_list])]

\* A shuffle that draws every place anew from the list.
Shuffles_with_replacement(list) ==
    {[i \in 1..Len(list) |-> list[f[i]]] : f \in [1..Len(list) -> 1..Len(list)]}

\* line 213: random.shuffle, every order the list can be left in.
Shuffles(list) == {[i \in 1..Len(list) |-> list[p[i]]] : p \in Permutations(1..Len(list))}

\* lines 213-214: what _generate_parameters can return.
Returns(config) ==
    LET full_scan == generate_parameters(config).full_scan
    IN  IF config.randomize THEN Shuffles(full_scan) ELSE {full_scan}

\* The inputs examined.
RangeNumbers == {0, 3, 6, One \div 2, One, 2 * One}
\* The steps entered: a step may be negative.
StepNumbers == RangeNumbers \cup {-(One \div 2), -One}
CustomLists == {<<>>, <<Num(One)>>, <<Num(One \div 2), Blank, Num(One)>>, <<Num(One), Junk>>}

GetValuesCalls ==
    {c \in [fn : {"get_values"}, ptype : {"range", "list"}, start : RangeNumbers,
            stop : RangeNumbers, step : StepNumbers, clist : CustomLists,
            target_type : {"float", "int"}] :
        /\ c.ptype = "range" =>
              /\ c.clist = <<>>
              /\ c.step = 0 \/ Abs(c.stop - c.start) \div Abs(c.step) < MaxValues
        /\ c.ptype = "list" => c.start = 0 /\ c.stop = 0 /\ c.step = 0}

Dim1Specs ==
    {d \in [dim1_type : {"range", "list"}, start : {0, One}, stop : {0, One, 2 * One},
            step : {0, One \div 2, One, 2 * One}, custom_list : CustomLists] :
        /\ d.dim1_type = "range" =>
              /\ d.custom_list = <<>>
              /\ d.step = 0 \/ Abs(d.stop - d.start) \div Abs(d.step) < MaxValues
        /\ d.dim1_type = "list" => d.start = 0 /\ d.stop = 0 /\ d.step = 0}

Dim2Specs ==
    {[dim2_enabled |-> FALSE, dim2_type |-> "range", dim2_start |-> 0, dim2_stop |-> 0,
      dim2_step |-> 0, dim2_list |-> <<>>],
     [dim2_enabled |-> TRUE, dim2_type |-> "range", dim2_start |-> 0, dim2_stop |-> One,
      dim2_step |-> One, dim2_list |-> <<>>],
     [dim2_enabled |-> TRUE, dim2_type |-> "list", dim2_start |-> 0, dim2_stop |-> 0,
      dim2_step |-> 0, dim2_list |-> <<>>],
     [dim2_enabled |-> TRUE, dim2_type |-> "list", dim2_start |-> 0, dim2_stop |-> 0,
      dim2_step |-> 0, dim2_list |-> <<Num(One), Junk>>]}

ModeSpecs ==
    {m \in [mode : {"standard", "timing", "rabi", "half", "link"},
            mode_param : {0, One, 3 * One + 3},
            link_formulas : {<<>>, <<"P0">>, <<"P0/2", "P0">>, <<"undefined_name">>}] :
        /\ m.mode = "link" => m.mode_param = 0
        /\ m.mode # "link" => m.link_formulas = <<>>
        /\ m.mode \in {"standard", "half"} => m.mode_param = 0}

ScanConfig(d, m, e, param_type, averages, randomize) ==
    [dim1_type |-> d.dim1_type, start |-> d.start, stop |-> d.stop, step |-> d.step,
     custom_list |-> d.custom_list, param_type |-> param_type,
     mode |-> m.mode, mode_param |-> m.mode_param, link_formulas |-> m.link_formulas,
     dim2_enabled |-> e.dim2_enabled, dim2_type |-> e.dim2_type, dim2_start |-> e.dim2_start,
     dim2_stop |-> e.dim2_stop, dim2_step |-> e.dim2_step, dim2_list |-> e.dim2_list,
     averages |-> averages, randomize |-> randomize]

GenerateCalls ==
    {c \in {[fn |-> "_generate_parameters",
             config |-> ScanConfig(d, m, e, param_type, averages, randomize)] :
               d \in Dim1Specs, m \in ModeSpecs, e \in Dim2Specs,
               param_type \in {"float", "int"}, averages \in 0..MaxAverages,
               randomize \in BOOLEAN} :
        Len(generate_parameters(c.config).full_scan) <= MaxTuples}

GeneratorInit ==
    /\ status = IdleStatus
    /\ stop_flag = FALSE
    /\ data_queue = <<>>
    /\ on_data_ready = FALSE
    /\ acq_threads = [s \in Sweeps |-> NoAcq]
    /\ proc_threads = [s \in Sweeps |-> NoProc]
    /\ current_run_dir = 0
    /\ csv_handle = 0
    /\ run_count = 0
    /\ results_csv = <<>>
    /\ waveforms = {}
    /\ response = [op |-> "none", status |-> "none", message |-> "none"]
    /\ enqueued = [s \in Sweeps |-> NoPut]
    /\ handled = NoPoint
    /\ stop_info = [s \in Sweeps |-> NoStop]
    /\ call \in GetValuesCalls \cup GenerateCalls
    /\ returned = NotReturned

\* get_values(...) is called and returns or raises.
get_values_call ==
    /\ call.fn = "get_values" /\ returned = NotReturned
    /\ LET got == get_values(call.ptype, call.start, call.stop, call.step, call.clist,
                             call.target_type)
       IN returned' = [fn |-> "get_values", raised |-> got.raised, value |-> got.vals]
    /\ UNCHANGED <<call, disk_vars, manager_vars>>

\* _generate_parameters(config) is called and returns or raises.
generate_parameters_call ==
    /\ call.fn = "_generate_parameters" /\ returned = NotReturned
    /\ \E full_scan \in Returns(call.config) :
          returned' = [fn |-> "_generate_parameters",
                       raised |-> generate_parameters(call.config).raised,
                       value |-> full_scan]
    /\ UNCHANGED <<call, disk_vars, manager_vars>>

GeneratorNext == get_values_call \/ generate_parameters_call

GeneratorSpec == GeneratorInit /\ [][GeneratorNext]_vars

(***************************************************************************)
(* ExperimentManager._calculate_delay_from_vcd on its own, and the body of *)
(* the acquisition loop for one tuple, which calls it.                     *)
(* A time in seconds is a number of ticks and the power of ten one tick    *)
(* stands for: every timestamp of a trace is multiplied by the same        *)
(* timescale, so the difference of two of them is the difference of the    *)
(* ticks at that timescale. Voltages are integers in tenths of a volt. The *)
(* binary rounding of Python floats is not modelled.                       *)
(***************************************************************************)
MaxLines == 3
MaxTime == 2

\* The manager's state when no sweep has been started.
ManagerIdle ==
    /\ status = IdleStatus
    /\ stop_flag = FALSE
    /\ data_queue = <<>>
    /\ on_data_ready = FALSE
    /\ acq_threads = [s \in Sweeps |-> NoAcq]
    /\ proc_threads = [s \in Sweeps |-> NoProc]
    /\ current_run_dir = 0
    /\ csv_handle = 0
    /\ run_count = 0
    /\ results_csv = <<>>
    /\ waveforms = {}
    /\ response = [op |-> "none", status |-> "none", message |-> "none"]
    /\ enqueued = [s \in Sweeps |-> NoPut]
    /\ handled = NoPoint
    /\ stop_info = [s \in Sweeps |-> NoStop]

\* ticks * 10^exp seconds; zero is written one way.
Seconds(ticks, exp) == [ticks |-> ticks, exp |-> IF ticks = 0 THEN 0 ELSE exp]

\* The lines of a trace file. "$timescale 1<unit> $end" (three words) or
\* "$timescale" alone with the unit on the line after it (one word), a
\* "$var" line of six words or cut short after the code,
\* "$enddefinitions $end", "#<t>", a value change written "<val><code>"
\* (scalar) or "<val> <code>" (spaced), and an empty line.
TimescaleLine(unit, words) == [k |-> "$timescale", unit |-> unit, words |-> words]
VarLine(code, name) == [k |-> "$var", parts |-> 6, code |-> code, name |-> name]
VarLineCut(code) == [k |-> "$var", parts |-> 4, code |-> code, name |-> ""]
EndDefinitions == [k |-> "$enddefinitions"]
TimeLine(t) == [k |-> "#", t |-> t]
Scalar(val, code) == [k |-> "change", form |-> "scalar", val |-> val, code |-> code]
Spaced(val, code) == [k |-> "change", form |-> "spaced", val |-> val, code |-> code]
EmptyLine == [k |-> "empty"]

\* The text of a value, character by character: "1" or "0", "r<volts>"
\* with one decimal, "b<bits>", or a letter such as x or z.
Digits == <<"0", "1", "2", "3", "4", "5", "6", "7", "8", "9">>
Digit(n) == Digits[n + 1]
IsDigit(c) == \E i \in DOMAIN Digits : Digits[i] = c
DigitValue(c) == (CHOOSE i \in DOMAIN Digits : Digits[i] = c) - 1
Logic(b) == <<Digit(b)>>
Real(tenths) == <<"r", Digit(tenths \div 10), ".", Digit(tenths % 10)>>
Bin(bits) == <<"b">> \o [i \in DOMAIN bits |-> Digit(bits[i])]
Letter == <<"x">>

\* The characters of a trace code.
Spell(code) ==
    IF code = "" THEN <<>>
    ELSE IF code = "1!" THEN <<"1", "!">>
    ELSE <<code>>

\* str.endswith, and the text before the ending.
EndsWith(text, ending) ==
    /\ Len(ending) <= Len(text)
    /\ SubSeq(text, Len(text) - Len(ending) + 1, Len(text)) = ending
CutEnd(text, ending) == SubSeq(text, 1, Len(text) - Len(ending))

\* A voltage: num / 10^frac volts.
Volts(num, frac) == [num |-> num, frac |-> frac]
RECURSIVE TenTo(_)
TenTo(n) == IF n = 0 THEN 1 ELSE 10 * TenTo(n - 1)

\* int(bits, 2) of a sequence of 0s and 1s
RECURSIVE BinValue(_)
BinValue(bits) ==
    IF bits = <<>> THEN 0 ELSE 2 * BinValue(SubSeq(bits, 1, Len(bits) - 1)) + bits[Len(bits)]

\* The number a string of decimal digits writes.
RECURSIVE Number(_)
Number(digits) ==
    IF digits = <<>> THEN 0
    ELSE 10 * Number(SubSeq(digits, 1, Len(digits) - 1)) + DigitValue(digits[Len(digits)])

\* float(text) for a text of the characters examined (digits, the point,
\* letters r, b, x, the characters of codes): digits with at most one point
\* among them make a number, anything else raises ValueError.
Float(text) ==
    LET points == {i \in DOMAIN text : text[i] = "."}
        digits == SelectSeq(text, IsDigit)
        valid == /\ Len(digits) >= 1
                 /\ Cardinality(points) <= 1
                 /\ Len(digits) + Cardinality(points) = Len(text)
    IN  IF ~valid THEN [raised |-> TRUE, value |-> Volts(0, 0)]
        ELSE [raised |-> FALSE,
              value |-> Volts(Number(digits),
                              IF points = {} THEN 0
                              ELSE Len(text) - (CHOOSE i \in points : TRUE))]

\* int(text, 2) for a text of the characters examined: binary digits, after
\* an optional "0b", make a number, anything else raises ValueError.
IntBase2(text) ==
    LET body == IF Len(text) >= 2 /\ text[1] = "0" /\ text[2] \in {"b", "B"}
                THEN SubSeq(text, 3, Len(text)) ELSE text
        valid == body # <<>> /\ \A i \in DOMAIN body : body[i] \in {"0", "1"}
    IN  IF ~valid THEN [raised |-> TRUE, value |-> Volts(0, 0)]
        ELSE [raised |-> FALSE,
              value |-> Volts(BinValue([i \in DOMAIN body |-> DigitValue(body[i])]), 0)]

\* lines 360-377: _parse_vcd_val. The high level is 3.3 V, in tenths.
HighLevel == 33
parse_vcd_val(val_str) ==
    IF val_str = <<"1">> THEN Volts(HighLevel, 1)
    ELSE IF val_str = <<"0">> THEN Volts(0, 0)
    ELSE IF val_str # <<>> /\ val_str[1] \in {"r", "R"}
    THEN Float(Tail(val_str)).value
    ELSE IF val_str # <<>> /\ val_str[1] \in {"b", "B"}
    THEN IntBase2(Tail(val_str)).value
    ELSE Float(val_str).value

\* line 422, in tenths of a volt.
THRESHOLD_V == 15

\* line 456: voltage > THRESHOLD_V
is_high(voltage) == 10 * voltage.num > THRESHOLD_V * TenTo(voltage.frac)

\* lines 385-401: the header is read up to "$enddefinitions". The last
\* "$timescale" line of two words or more that names ns, us or ms sets the
\* timescale (1e-9 if there is none); each "$var" line adds its code and name to code_map, and one cut
\* short after the code raises IndexError. header_end is the 0-based index
\* of the "$enddefinitions" line, 0 if there is none.
DefaultTimescale == -9
RECURSIVE ParseHeader(_, _, _)
ParseHeader(lines, i, acc) ==
    IF i > Len(lines) \/ acc.raised THEN acc
    ELSE LET line == lines[i]
             timescale == IF line.k = "$timescale" /\ line.words >= 2
                          THEN IF line.unit = "ns" THEN -9
                               ELSE IF line.unit = "us" THEN -6
                               ELSE IF line.unit = "ms" THEN -3
                               ELSE acc.timescale
                          ELSE acc.timescale
         IN  IF line.k = "$var" /\ line.parts < 5
             THEN [acc EXCEPT !.raised = TRUE]
             ELSE IF line.k = "$var"
             THEN ParseHeader(lines, i + 1,
                      [acc EXCEPT !.code_map = Append(@, [code |-> line.code,
                                                           name |-> line.name])])
             ELSE IF line.k = "$enddefinitions"
             THEN [acc EXCEPT !.header_end = i - 1]
             ELSE ParseHeader(lines, i + 1, [acc EXCEPT !.timescale = timescale])

\* lines 404-410: the code of a signal identifier: the code whose name it
\* is, else the identifier itself if it is a code of the table, else none
\* ("").
ResolveCode(code_map, id) ==
    LET named == {j \in DOMAIN code_map : code_map[j].name = id}
        last == CHOOSE j \in named : \A m \in named : m <= j
    IN  IF named # {} THEN code_map[last].code
        ELSE IF \E j \in DOMAIN code_map : code_map[j].code = id THEN id
        ELSE ""

\* lines 416-470: the scan of the body. -1 stands for None. A spaced
\* change carries its code as its second word; a scalar change is given the
\* code its text ends with, the launch code tried first (lines 445-449), and
\* what stands before that ending is its value.
NoEdges ==
    [current_time |-> 0, t_launch |-> -1, t_trigger |-> -1,
     state_launch |-> FALSE, state_trigger |-> FALSE]

LineText(line) == line.val \o Spell(line.code)

SplitLine(line, code_launch, code_trigger) ==
    IF line.form = "spaced" THEN [skip |-> FALSE, val_part |-> line.val, code_part |-> line.code]
    ELSE IF EndsWith(LineText(line), Spell(code_launch))
    THEN [skip |-> FALSE, val_part |-> CutEnd(LineText(line), Spell(code_launch)),
          code_part |-> code_launch]
    ELSE IF EndsWith(LineText(line), Spell(code_trigger))
    THEN [skip |-> FALSE, val_part |-> CutEnd(LineText(line), Spell(code_trigger)),
          code_part |-> code_trigger]
    ELSE [skip |-> TRUE, val_part |-> <<>>, code_part |-> ""]

ScanLine(st, line, code_launch, code_trigger) ==
    IF line.k = "#" THEN [st EXCEPT !.current_time = line.t]
    ELSE IF line.k # "change" THEN st
    ELSE LET split == SplitLine(line, code_launch, code_trigger)
             high == is_high(parse_vcd_val(split.val_part))
         IN  IF split.skip THEN st
             ELSE IF split.code_part = code_launch
             THEN [st EXCEPT !.t_launch = IF high /\ ~st.state_launch /\ @ = -1
                                         THEN st.current_time ELSE @,
                            !.state_launch = high]
             ELSE IF split.code_part = code_trigger
             THEN [st EXCEPT !.t_trigger = IF high /\ ~st.state_trigger /\ @ = -1
                                          THEN st.current_time ELSE @,
                            !.state_trigger = high]
             ELSE st

RECURSIVE ScanBody(_, _, _, _, _)
ScanBody(lines, i, st, code_launch, code_trigger) ==
    IF i > Len(lines) \/ (st.t_launch # -1 /\ st.t_trigger # -1) THEN st
    ELSE ScanBody(lines, i + 1, ScanLine(st, lines[i], code_launch, code_trigger),
                  code_launch, code_trigger)

\* lines 353-479, the body of the try block: it raises (the file cannot be
\* opened or read, a "$var" line is cut short) or returns a delay.
\* An identifier is stripped of blanks and of the parentheses around it.
Clean(id) == id.text
ReadDelay(vcd, launch_id, trigger_id) ==
    IF ~vcd.readable THEN [raised |-> TRUE, delta |-> Seconds(0, 0)]
    ELSE LET header == ParseHeader(vcd.lines, 1,
                           [timescale |-> DefaultTimescale, code_map |-> <<>>,
                            header_end |-> 0, raised |-> FALSE])
             code_launch == ResolveCode(header.code_map, Clean(launch_id))
             code_trigger == ResolveCode(header.code_map, Clean(trigger_id))
             st == ScanBody(vcd.lines, header.header_end + 1, NoEdges,
                            code_launch, code_trigger)
             t_launch == IF st.t_launch = -1 THEN 0 ELSE st.t_launch
             t_trigger == IF st.t_trigger = -1 THEN 0 ELSE st.t_trigger
         IN  IF header.raised THEN [raised |-> TRUE, delta |-> Seconds(0, 0)]
             ELSE IF code_launch = "" \/ code_trigger = ""
             THEN [raised |-> FALSE, delta |-> Seconds(0, 0)]
             ELSE [raised |-> FALSE, delta |-> Seconds(t_trigger - t_launch, header.timescale)]

\* lines 351-484: whatever the try block raises is caught at line 481 and
\* 0.0 is returned.
calculate_delay_from_vcd(vcd, launch_id, trigger_id) ==
    LET read == ReadDelay(vcd, launch_id, trigger_id)
    IN  [raised |-> FALSE, delta |-> IF read.raised THEN Seconds(0, 0) ELSE read.delta]

\* line 506, the delay used in simulation: 0.78 s.
SimulatedDelay == Seconds(78, -2)

\* lines 495-530, the body of the acquisition loop for one tuple once the
\* sequence is rendered: the compiler, the delay, the executor, the two
\* channels, the job. compiled is what compile_vcd returns at line 502,
\* which nothing receives. ran and acquired count the calls of run_sequence
\* and acquire_channel; put is what went on the queue.
acquisition_tuple_delay_raises(USE_SIMULATION, vcd, launch_id, trigger_id, compiled, success) ==
    LET read == ReadDelay(vcd, launch_id, trigger_id)
        start_delay == IF USE_SIMULATION THEN SimulatedDelay ELSE read.delta
    IN  IF ~USE_SIMULATION /\ read.raised
        THEN [raised |-> TRUE, ran |-> 0, acquired |-> 0, put |-> <<>>]
        ELSE IF ~success
        THEN [raised |-> FALSE, ran |-> 1, acquired |-> 0, put |-> <<>>]
        ELSE [raised |-> FALSE, ran |-> 1, acquired |-> 2,
              put |-> <<[start_delay |-> start_delay]>>]

acquisition_tuple(USE_SIMULATION, vcd, launch_id, trigger_id, compiled, success) ==
    LET start_delay == IF USE_SIMULATION THEN SimulatedDelay
                       ELSE calculate_delay_from_vcd(vcd, launch_id, trigger_id).delta
    IN  IF ~success
        THEN [raised |-> FALSE, ran |-> 1, acquired |-> 0, put |-> <<>>]
        ELSE [raised |-> FALSE, ran |-> 1, acquired |-> 2,
              put |-> <<[start_delay |-> start_delay]>>]

\* The traces and identifiers examined. The table names four signals, the
\* code of the last one ending with the code of the first; the launch and
\* trigger channels of config.py are "60" and "68".
SignalTable ==
    <<VarLine("!", "60"), VarLine("%", "68"), VarLine("&", "70"), VarLine("1!", "71")>>
Headers ==
    {<<TimescaleLine(u, 3)>> \o SignalTable \o <<EndDefinitions>> :
        u \in {"ns", "us", "ms", "ps"}}
    \cup {SignalTable \o <<EndDefinitions>>,
          <<TimescaleLine("us", 3)>> \o SignalTable,
          <<TimescaleLine("us", 1), EmptyLine>> \o SignalTable \o <<EndDefinitions>>,
          <<VarLineCut("!")>> \o SignalTable \o <<EndDefinitions>>}
StandardHeader == <<TimescaleLine("ns", 3)>> \o SignalTable \o <<EndDefinitions>>

BodyLines ==
    {TimeLine(t) : t \in 1..MaxTime}
    \cup {Scalar(Logic(b), c) : b \in {0, 1}, c \in {"!", "%"}}
    \cup {Spaced(Real(12), "!"), Scalar(Letter, "!"), Spaced(Bin(<<1, 0>>), "%"),
          Spaced(Real(HighLevel), "&"), Scalar(Logic(1), "1!")}
Id(text) == [text |-> text, parens |-> FALSE]
StandardIds == <<Id("60"), Id("68")>>
IdPairs ==
    {<<Id("68"), Id("60")>>, <<Id("!"), Id("68")>>, <<Id("60"), Id("60")>>,
     <<[text |-> "60", parens |-> TRUE], Id("%")>>,
     <<Id("99"), Id("68")>>, <<Id("60"), Id("99")>>, <<Id("99"), Id("98")>>,
     <<Id("60"), Id("71")>>, <<Id("71"), Id("60")>>}

Unreadable == [readable |-> FALSE, lines |-> <<>>]
File(header, body) == [readable |-> TRUE, lines |-> header \o body]

DelayCall(vcd, ids) ==
    [fn |-> "_calculate_delay_from_vcd", vcd |-> vcd, launch_id |-> ids[1],
     trigger_id |-> ids[2]]

\* For the loop body: a trace with both edges, under every header and
\* every pair of identifiers. The compiler of hardware.py (lines 58-95)
\* returns True in simulation; outside it returns False when the binary
\* fails or leaves no trace, and the trace file is then whatever was on disk.
BothEdges == <<Scalar(Logic(1), "!"), TimeLine(1), Scalar(Logic(1), "%")>>
TupleCall(sim, vcd, ids, cmp, ok) ==
    [fn |-> "_acquisition_loop", USE_SIMULATION |-> sim, vcd |-> vcd,
     launch_id |-> ids[1], trigger_id |-> ids[2], compiled |-> cmp, success |-> ok]

\* Every body of up to MaxLines lines is read under every header with the
\* configured identifiers and under the standard header with every other
\* pair of identifiers.
DelayInit ==
    /\ ManagerIdle
    /\ returned = NotReturned
    /\ \/ \E n \in 0..MaxLines : \E b \in [1..n -> BodyLines] :
             \/ \E h \in Headers : call = DelayCall(File(h, b), StandardIds)
             \/ \E p \in IdPairs : call = DelayCall(File(StandardHeader, b), p)
       \/ call = DelayCall(Unreadable, StandardIds)
       \/ \E sim \in BOOLEAN, cmp \in BOOLEAN, ok \in BOOLEAN, p \in IdPairs \cup {StandardIds} :
             /\ sim => cmp
             /\ \/ \E h \in Headers : call = TupleCall(sim, File(h, BothEdges), p, cmp, ok)
                \/ call = TupleCall(sim, Unreadable, p, cmp, ok)

\* _calculate_delay_from_vcd(vcd_path, launch_id, trigger_id) is called.
calculate_delay_call ==
    /\ call.fn = "_calculate_delay_from_vcd" /\ returned = NotReturned
    /\ LET got == calculate_delay_from_vcd(call.vcd, call.launch_id, call.trigger_id)
       IN returned' = [fn |-> "_calculate_delay_from_vcd", raised |-> got.raised,
                       value |-> got.delta]
    /\ UNCHANGED <<call, disk_vars, manager_vars>>

\* The acquisition loop goes through its body for one tuple.
acquisition_tuple_call ==
    /\ call.fn = "_acquisition_loop" /\ returned = NotReturned
    /\ LET got == acquisition_tuple(call.USE_SIMULATION, call.vcd, call.launch_id,
                                    call.trigger_id, call.compiled, call.success)
       IN returned' = [fn |-> "_acquisition_loop", raised |-> got.raised, ran |-> got.ran,
                       acquired |-> got.acquired, put |-> got.put]
    /\ UNCHANGED <<call, disk_vars, manager_vars>>

DelayNext == calculate_delay_call \/ acquisition_tuple_call

DelaySpec == DelayInit /\ [][DelayNext]_vars

(***************************************************************************)
(* app/analysis on its own: fitting.perform_odr_fit,                       *)
(* physics.calculate_atom_numbers and physics.calculate_probabilities.     *)
(* Areas, amplitudes, calibration factors and atom counts are integers; a  *)
(* quotient is kept as a fraction in lowest terms. The rounding of Python  *)
(* floats is not modelled.                                                 *)
(***************************************************************************)
MaxSamples == 2
MaxCount == 2

\* None, and a value that is not None.
Absent == [none |-> TRUE, v |-> 0]
Some(v) == [none |-> FALSE, v |-> v]

\* (None, None)
NonePair == <<Absent, Absent>>

\* lines 126-182: perform_odr_fit(ifunc, x_data, y_data, initial_guess).
\* The data are given by their lengths (-1: None); solver is what ODR
\* construction and odr.run() do inside the try block, which is scipy's
\* business: they return an output or raise. Without an initial guess line 141 takes np.max(y_data),
\* which raises ValueError on an empty array, before the try block.
perform_odr_fit(x_len, y_len, has_guess, solver) ==
    IF x_len = -1 \/ y_len = -1 \/ x_len # y_len
    THEN [raised |-> FALSE, value |-> NonePair]
    ELSE IF ~has_guess /\ y_len = 0 THEN [raised |-> TRUE, value |-> NonePair]
    ELSE IF solver = "raises" THEN [raised |-> FALSE, value |-> NonePair]
    ELSE [raised |-> FALSE, value |-> <<Some("beta"), Some("res_var")>>]

\* lines 15-42: calculate_atom_numbers
calculate_atom_numbers_and(area_up, area_dw, max_vol_up, max_vol_dw, alpha, beta, R, K, max_low) ==
    IF max_vol_up > max_low /\ max_vol_dw > max_low
    THEN <<Some((area_up - area_dw * alpha) * K), Some((area_dw - area_up * beta) * R * K)>>
    ELSE NonePair

calculate_atom_numbers(area_up, area_dw, max_vol_up, max_vol_dw, alpha, beta, R, K, max_low) ==
    IF max_vol_up > max_low \/ max_vol_dw > max_low
    THEN LET atom_f2 == (area_up - area_dw * alpha) * K
             atom_f1 == (area_dw - area_up * beta) * R * K
         IN  <<Some(atom_f2), Some(atom_f1)>>
    ELSE NonePair

\* n / d as a fraction in lowest terms with a positive denominator.
RECURSIVE Gcd(_, _)
Gcd(a, b) == IF b = 0 THEN a ELSE Gcd(b, a % b)
Quotient(n, d) ==
    LET g == Gcd(Abs(n), Abs(d))
        sign == IF d < 0 THEN -1 ELSE 1
    IN  [num |-> sign * (n \div g), den |-> sign * (d \div g)]

\* lines 44-59: calculate_probabilities
calculate_probabilities_unscaled(n_f2, n_f1) ==
    IF n_f2.none \/ n_f1.none THEN NonePair
    ELSE LET total == n_f2.v + n_f1.v
         IN  IF total = 0 THEN <<Some(Quotient(0, 1)), Some(Quotient(0, 1))>>
             ELSE <<Some(Quotient(n_f2.v, total)), Some(Quotient(n_f1.v, total))>>

calculate_probabilities(n_f2, n_f1) ==
    IF n_f2.none \/ n_f1.none THEN NonePair
    ELSE LET total == n_f2.v + n_f1.v
         IN  IF total = 0 THEN <<Some(Quotient(0, 1)), Some(Quotient(0, 1))>>
             ELSE <<Some(Quotient(100 * n_f2.v, total)), Some(Quotient(100 * n_f1.v, total))>>

\* The calls examined.
Lengths == -1..MaxSamples
Counts == {Absent} \cup {Some(n) : n \in -MaxCount..MaxCount}
Factors == 0..MaxCount

AnalysisInit ==
    /\ ManagerIdle
    /\ returned = NotReturned
    /\ \/ \E x_len \in Lengths, y_len \in Lengths, has_guess \in BOOLEAN,
             solver \in {"returns", "raises"} :
             call = [fn |-> "perform_odr_fit", x_len |-> x_len, y_len |-> y_len,
                     has_guess |-> has_guess, solver |-> solver]
       \/ \E area_up \in Factors, area_dw \in Factors, max_vol_up \in Factors,
             max_vol_dw \in Factors, alpha \in Factors, beta \in Factors,
             R \in 1..MaxCount, K \in 1..MaxCount, max_low \in 0..1 :
             call = [fn |-> "calculate_atom_numbers", area_up |-> area_up,
                     area_dw |-> area_dw, max_vol_up |-> max_vol_up,
                     max_vol_dw |-> max_vol_dw, alpha |-> alpha, beta |-> beta,
                     R |-> R, K |-> K, max_low |-> max_low]
       \/ \E n_f2 \in Counts, n_f1 \in Counts :
             call = [fn |-> "calculate_probabilities", n_f2 |-> n_f2, n_f1 |-> n_f1]

perform_odr_fit_call ==
    /\ call.fn = "perform_odr_fit" /\ returned = NotReturned
    /\ LET got == perform_odr_fit(call.x_len, call.y_len, call.has_guess, call.solver)
       IN returned' = [fn |-> "perform_odr_fit", raised |-> got.raised, value |-> got.value]
    /\ UNCHANGED <<call, disk_vars, manager_vars>>

calculate_atom_numbers_call ==
    /\ call.fn = "calculate_atom_numbers" /\ returned = NotReturned
    /\ returned' = [fn |-> "calculate_atom_numbers", raised |-> FALSE,
                    value |-> calculate_atom_numbers(call.area_up, call.area_dw,
                                  call.max_vol_up, call.max_vol_dw, call.alpha, call.beta,
                                  call.R, call.K, call.max_low)]
    /\ UNCHANGED <<call, disk_vars, manager_vars>>

calculate_probabilities_call ==
    /\ call.fn = "calculate_probabilities" /\ returned = NotReturned
    /\ returned' = [fn |-> "calculate_probabilities", raised |-> FALSE,
                    value |-> calculate_probabilities(call.n_f2, call.n_f1)]
    /\ UNCHANGED <<call, disk_vars, manager_vars>>

AnalysisNext ==
    perform_odr_fit_call \/ calculate_atom_numbers_call \/ calculate_probabilities_call

AnalysisSpec == AnalysisInit /\ [][AnalysisNext]_vars

(***************************************************************************)
(* One point of the processing loop on its own: the fit window             *)
(* (get_fit_data), the width estimate (fitting.calc_sigma) and the body of *)
(* the try block for a job whose traces passed the checks. Each is called  *)
(* once on inputs drawn from the sets below.                               *)
(***************************************************************************)
MaxTrace == 4
MaxLevel == 2

\* The entries of s at the indices of mask, in order (numpy's s[mask]).
RECURSIVE Masked(_, _, _)
Masked(s, mask, i) ==
    IF i > Len(s) THEN <<>>
    ELSE (IF i \in mask THEN <<s[i]>> ELSE <<>>) \o Masked(s, mask, i + 1)

\* lines 623-629: get_fit_data(t, v, center_ms, width_ms). Times are in
\* half milliseconds, so that centre and half width are whole numbers:
\* start = 2 * center_ms - width_ms, end = 2 * center_ms + width_ms.
get_fit_data_any_mask(t, v, center_ms, width_ms) ==
    LET start == 2 * center_ms - width_ms
        end == 2 * center_ms + width_ms
        mask == {i \in DOMAIN t : t[i] >= start /\ t[i] <= end}
    IN  IF width_ms > 0
        THEN [t |-> Masked(t, mask, 1), v |-> Masked(v, mask, 1), window |-> Some(<<start, end>>)]
        ELSE [t |-> t, v |-> v, window |-> Absent]

get_fit_data(t, v, center_ms, width_ms) ==
    LET start == 2 * center_ms - width_ms
        end == 2 * center_ms + width_ms
        mask == {i \in DOMAIN t : t[i] >= start /\ t[i] <= end}
    IN  IF width_ms > 0 /\ mask # {}
        THEN [t |-> Masked(t, mask, 1), v |-> Masked(v, mask, 1), window |-> Some(<<start, end>>)]
        ELSE [t |-> t, v |-> v, window |-> Absent]

\* data_manager.py lines 104-105: the window save_point writes to the bundle.
window_saved(window) == IF window.none THEN <<-1, -1>> ELSE window.v

\* The largest entry of a non-empty sequence, the smallest, and the 0-based
\* index of the first largest (np.max, np.min, np.argmax).
SeqMax(s) == CHOOSE m \in {s[i] : i \in DOMAIN s} : \A i \in DOMAIN s : s[i] <= m
SeqMin(s) == CHOOSE m \in {s[i] : i \in DOMAIN s} : \A i \in DOMAIN s : s[i] >= m
ArgMax(s) == (CHOOSE i \in DOMAIN s : s[i] = SeqMax(s) /\ \A j \in 1..(i - 1) : s[j] < s[i]) - 1

\* fitting.py lines 93-94: the scan to the right of the peak; indices are
\* 0-based as in the source. f[idx] > peak_height * 0.5 is compared doubled.
RECURSIVE ScanRight(_, _, _, _)
ScanRight(f, idx, peak_height, last) ==
    IF idx < last /\ 2 * f[idx + 1] > peak_height
    THEN ScanRight(f, idx + 1, peak_height, last)
    ELSE idx

\* fitting.py line 100: hwhm / sqrt(2 ln 2), and line 103: the floor 1e-4.
\* x is in units of 1e-4 and sigma in units of 1e-9:
\* 1e-4 / sqrt(2 ln 2) = 8.4932e-5.
SigmaPerHwhm == 84932
SigmaFloor == 100000

\* fitting.py lines 69-103: calc_sigma(func, x, pkidx). A read of x at an
\* index outside it raises IndexError.
calc_sigma_scans_to_end(func, x, pkidx) ==
    IF func = <<>> THEN [raised |-> FALSE, value |-> Absent, idx |-> -1]
    ELSE LET f_min == SeqMin(func)
             f == [i \in DOMAIN func |-> func[i] - f_min]
             peak_height == SeqMax(f)
             peak == IF pkidx.none THEN ArgMax(f) ELSE pkidx.v
             idx == ScanRight(f, peak, peak_height, Len(f))
         IN  IF idx >= Len(x) \/ peak >= Len(x)
             THEN [raised |-> TRUE, value |-> Absent, idx |-> idx]
             ELSE LET hwhm == x[idx + 1] - x[peak + 1]
                      sigma == hwhm * SigmaPerHwhm
                  IN  [raised |-> FALSE,
                       value |-> Some(IF sigma > 0 THEN sigma ELSE SigmaFloor),
                       idx |-> idx]

calc_sigma(func, x, pkidx) ==
    IF func = <<>> THEN [raised |-> FALSE, value |-> Absent, idx |-> -1]
    ELSE LET f_min == SeqMin(func)
             f == [i \in DOMAIN func |-> func[i] - f_min]
             peak_height == SeqMax(f)
             peak == IF pkidx.none THEN ArgMax(f) ELSE pkidx.v
             idx == ScanRight(f, peak, peak_height, Len(f) - 2)
         IN  IF idx >= Len(x) \/ peak >= Len(x)
             THEN [raised |-> TRUE, value |-> Absent, idx |-> idx]
             ELSE LET hwhm == x[idx + 1] - x[peak + 1]
                      sigma == hwhm * SigmaPerHwhm
                  IN  [raised |-> FALSE,
                       value |-> Some(IF sigma > 0 THEN sigma ELSE SigmaFloor),
                       idx |-> idx]

\* The parameters a converged fit returns: popt[1], popt[3], popt[4].
Beta == [amp |-> 2, sig |-> 1, cen |-> 1]

\* lines 634-635: popt of one channel. The solver converges or fails
\* (scipy's business); a failed fit is None.
Fitted(fit, solver) ==
    IF perform_odr_fit(Len(fit.t), Len(fit.v), FALSE, solver).value[1].none
    THEN Absent ELSE Some(Beta)

\* lines 636-644 for one channel: the fitted curve, the fitted amplitude,
\* width and centre, and the no-fit amplitude, width and centre taken from
\* the samples given to the fitter.
ChannelMetrics(tof_axis, fit, popt) ==
    [fit_curve |-> IF popt.none THEN [i \in DOMAIN tof_axis |-> 0]
                   ELSE [i \in DOMAIN tof_axis |-> IF tof_axis[i] = popt.v.cen
                                                   THEN popt.v.amp ELSE 0],
     fitted |-> ~popt.none,
     amp |-> IF popt.none THEN 0 ELSE popt.v.amp,
     sig |-> IF popt.none THEN 0 ELSE popt.v.sig,
     cen |-> IF popt.none THEN 0 ELSE popt.v.cen,
     amp_nf |-> IF Len(fit.v) > 0 THEN SeqMax(fit.v) ELSE 0,
     sig_nf |-> LET sigma == calc_sigma(fit.v, fit.t, Absent).value
                IN  IF sigma.none THEN 0 ELSE sigma.v,
     cen_nf |-> IF Len(fit.v) > 0 THEN fit.t[ArgMax(fit.v) + 1] ELSE 0,
     window |-> fit.window]

\* lines 560-716, the try block for a job whose traces are not empty and
\* within the voltage limit: windows, fits, metrics, then the
\* interferometer output (line 667), the ScanResult (686), save_point (707)
\* and the publish (708-714). physics has no calculate_interferometer_output:
\* line 667 raises AttributeError, which line 716 catches. save_point
\* writes when a run is open.
process_point(tof_axis, volt_up, volt_dw, fit_config, solver_up, solver_dw, sink, run_open) ==
    LET fit_up == get_fit_data(tof_axis, volt_up, fit_config.center_up, fit_config.width_up)
        fit_dw == get_fit_data(tof_axis, volt_dw, fit_config.center_dw, fit_config.width_dw)
        up == ChannelMetrics(tof_axis, fit_up, Fitted(fit_up, solver_up))
        dw == ChannelMetrics(tof_axis, fit_dw, Fitted(fit_dw, solver_dw))
    IN  IF "calculate_interferometer_output" \notin PhysicsExports
        THEN [caught |-> "AttributeError", up |-> up, dw |-> dw, built |-> FALSE,
              saved |-> FALSE, published |-> FALSE]
        ELSE [caught |-> "", up |-> up, dw |-> dw, built |-> TRUE,
              saved |-> run_open, published |-> sink]

\* The calls examined. A trace has up to MaxTrace samples of levels
\* 0..MaxLevel; a time axis starts at the start delay and advances by dt.
Traces(n) == [1..n -> 0..MaxLevel]
Axis(n, start_delay, dt) == [i \in 1..n |-> start_delay + (i - 1) * dt]
Reverse(s) == [i \in DOMAIN s |-> s[Len(s) + 1 - i]]
Constant(n) == [i \in 1..n |-> 0]
FitConfigs ==
    {[center_up |-> 0, width_up |-> 0, center_dw |-> 0, width_dw |-> 0],
     [center_up |-> 1, width_up |-> 1, center_dw |-> 0, width_dw |-> 0],
     [center_up |-> 1, width_up |-> 2, center_dw |-> 1, width_dw |-> 1],
     [center_up |-> 9, width_up |-> 1, center_dw |-> 1, width_dw |-> -1]}

PointInit ==
    /\ ManagerIdle
    /\ returned = NotReturned
    /\ \E n \in 1..MaxTrace : \E v \in Traces(n) :
          \/ \E start_delay \in 0..1, dt \in 1..2, center_ms \in 0..3, width_ms \in -1..2 :
                call = [fn |-> "get_fit_data", t |-> Axis(n, start_delay, dt), v |-> v,
                        center_ms |-> center_ms, width_ms |-> width_ms]
          \/ \E x \in {Axis(n, 0, 1), Reverse(Axis(n, 0, 1)), Constant(n)} :
             \E pkidx \in {Absent} \cup {Some(i) : i \in 0..(n - 1)} :
                call = [fn |-> "calc_sigma", func |-> v, x |-> x, pkidx |-> pkidx]
          \/ \E fit_config \in FitConfigs, solver_up \in {"returns", "raises"},
                solver_dw \in {"returns", "raises"}, sink \in BOOLEAN, run_open \in BOOLEAN :
                call = [fn |-> "_processing_loop", tof_axis |-> Axis(n, 1, 1), volt_up |-> v,
                        volt_dw |-> Reverse(v), fit_config |-> fit_config,
                        solver_up |-> solver_up, solver_dw |-> solver_dw, sink |-> sink,
                        run_open |-> run_open]

get_fit_data_call ==
    /\ call.fn = "get_fit_data" /\ returned = NotReturned
    /\ LET got == get_fit_data(call.t, call.v, call.center_ms, call.width_ms)
       IN returned' = [fn |-> "get_fit_data", raised |-> FALSE, t |-> got.t, v |-> got.v,
                       window |-> got.window]
    /\ UNCHANGED <<call, disk_vars, manager_vars>>

calc_sigma_call ==
    /\ call.fn = "calc_sigma" /\ returned = NotReturned
    /\ LET got == calc_sigma(call.func, call.x, call.pkidx)
       IN returned' = [fn |-> "calc_sigma", raised |-> got.raised, value |-> got.value,
                       idx |-> got.idx]
    /\ UNCHANGED <<call, disk_vars, manager_vars>>

\* The processing loop goes through its try block for one job.
process_point_call ==
    /\ call.fn = "_processing_loop" /\ returned = NotReturned
    /\ LET got == process_point(call.tof_axis, call.volt_up, call.volt_dw, call.fit_config,
                                call.solver_up, call.solver_dw, call.sink, call.run_open)
       IN returned' = [fn |-> "_processing_loop", raised |-> FALSE, caught |-> got.caught,
                       up |-> got.up, dw |-> got.dw, built |-> got.built,
                       saved |-> got.saved, published |-> got.published]
    /\ UNCHANGED <<call, disk_vars, manager_vars>>

PointNext == get_fit_data_call \/ calc_sigma_call \/ process_point_call

PointSpec == PointInit /\ [][PointNext]_vars

(***************************************************************************)
(* Properties                                                              *)
(***************************************************************************)
Alive(thread) == thread.pc \notin {"none", "done", "crashed"}
Closing(s) == proc_threads[s].pc \in {"close", "finish", "done"}
Metrics == <<"perform_odr_fit", "calculate_atom_numbers", "calculate_temperature",
             "calculate_probabilities">>

\* C1: within one sweep the step indices the processing loop handles are
\* strictly increasing: every job it handles has a larger step index than
\* the job it handled before.
C1_StepsIncrease ==
    [][(handled'.n > handled.n /\ handled.n > 0) => handled'.step > handled.step]_vars

\* C2: in a sweep that is stopped while its acquisition loop is running, the
\* processing loop does not get to close the run before the acquisition loop
\* has put its sentinel and everything that loop has put has been dequeued.
C2_ProcOutlivesAcq ==
    \A s \in Sweeps :
        (stop_info[s].requested /\ Closing(s)) =>
            /\ acq_threads[s].pc = "done"
            /\ \A i \in 1..Len(data_queue) : data_queue[i].src # s

\* C3: every started sweep ends: once a processing loop has been started,
\* the point is reached where no processing loop is left running, close_run
\* has released the table and is_running is false.
C3_SweepEnds ==
    (\E s \in Sweeps : proc_threads[s].pc = "get") ~>
        (/\ \A s \in Sweeps : proc_threads[s].pc \in {"none", "done"}
         /\ csv_handle = 0 /\ ~status.is_running)

C3_Witness ==
    \E s \in Sweeps :
        /\ proc_threads[s].pc = "done" /\ acq_threads[s].pc = "done"
        /\ csv_handle = 0 /\ ~status.is_running
        /\ response = StartResponse("success", "Scan started (Parallel)")

\* C4: after a stop request the acquisition loop of the stopped sweep starts
\* no tuple, and puts at most one more job (the one that was in flight).
C4_NothingStartedAfterStop ==
    \A s \in Sweeps : stop_info[s].started = 0 /\ stop_info[s].put <= 1

\* C5: an acquisition loop puts no sentinel while it is in its for loop and
\* exactly one when it has left it, and the sentinel is the last item it
\* has put.
C5_OneSentinelLast ==
    \A s \in Sweeps :
        /\ enqueued[s].sentinels <= 1
        /\ acq_threads[s].pc \in {"check", "tuple", "sentinel"} => enqueued[s].sentinels = 0
        /\ acq_threads[s].pc = "done" => enqueued[s].sentinels = 1 /\ enqueued[s].last = -1

C5_Witness ==
    \E s \in Sweeps :
        /\ acq_threads[s].pc = "done" /\ enqueued[s].sentinels = 1
        /\ data_queue = <<Sentinel(s)>> /\ Alive(proc_threads[s])
        /\ stop_flag /\ status.total_steps > 0 /\ status.current_step = 0

\* C6: a start_scan call made while is_running is true returns an error and
\* leaves the stop flag, the status, the queue, the run session and the
\* worker threads as they were.
C6_StartWhileRunningRejected ==
    [][(status.is_running /\ response' # response /\ response'.op = "start_scan") =>
          /\ response'.status = "error"
          /\ UNCHANGED <<status, stop_flag, data_queue, on_data_ready, worker_vars,
                         disk_vars, history_vars>>]_vars

C6_Witness ==
    /\ response = StartResponse("error", "Experiment already running")
    /\ status.is_running
    /\ \E s \in Sweeps : Alive(acq_threads[s]) /\ Alive(proc_threads[s])

\* C7: a start_scan call that returns an error starts no worker thread and
\* puts nothing on the queue: the threads that exist are those that existed,
\* and no sweep is left with a processing or acquisition loop of its own.
C7_FailedStartStartsNothing ==
    [][(response' # response /\ response'.op = "start_scan" /\ response'.status = "error") =>
          UNCHANGED <<worker_vars, data_queue, enqueued, handled, results_csv, waveforms>>]_vars

C7_Witness ==
    /\ response = StartResponse("error", "Data Init Failed")
    /\ \A s \in Sweeps : ~Alive(acq_threads[s]) /\ ~Alive(proc_threads[s])
    /\ current_run_dir > 0

\* C8: whenever the processing loop of a sweep has stopped, close_run has
\* been executed: the table handle opened for the sweep's run is released.
C8_StoppedLoopClosedRun ==
    \A s \in Sweeps : proc_threads[s].pc \in {"done", "crashed"} => csv_handle # s

\* C9: no exception raised while a job is handled stops the processing loop.
C9_LoopSurvivesPoint ==
    \A s \in Sweeps : proc_threads[s].pc # "crashed"

\* C10: a handled job with two non-empty traces within the voltage limit had
\* its metrics computed, interferometer outputs included, was saved exactly
\* once, and was published after that if a sink was registered.
C10_GoodPointSavedThenPublished ==
    (handled.n > 0 /\ handled.kind = "ok") =>
        handled.calls \in
            {Metrics \o <<"calculate_interferometer_output", "save_point">>,
             Metrics \o <<"calculate_interferometer_output", "save_point",
                          "on_data_ready(result)">>}

\* C11: a job whose two traces are non-empty and of which one has a peak
\* absolute net amplitude above voltage_limit is only reported: the one call
\* made for it is the error update to the registered sink (caught if the
\* sink raises), nothing is fitted or saved, and the processing loop is back
\* at its get.
C11_OverLimitDiscarded ==
    [][(handled'.n > handled.n /\ handled'.kind = "over") =>
          /\ handled'.calls \in
                 IF on_data_ready
                 THEN {<<"on_data_ready(error)">>, <<"on_data_ready(error)", "except">>}
                 ELSE {<<>>}
          /\ UNCHANGED <<results_csv, waveforms>>
          /\ \E s \in Sweeps : proc_threads[s].pc = "get" /\ proc_threads'[s].pc = "get"]_vars

C11_Witness ==
    /\ handled.n > 0 /\ handled.kind = "over"
    /\ handled.calls = <<"on_data_ready(error)", "except">>
    /\ \E s \in Sweeps : proc_threads[s].pc = "get" /\ data_queue # <<>>

\* C12: a job with an empty trace is only reported: no metric is computed,
\* nothing is saved, the error update goes to the registered sink and the
\* processing loop is back at its get.
C12_EmptyTraceSkipped ==
    [][(handled'.n > handled.n /\ handled'.kind = "empty") =>
          /\ handled'.calls = IF on_data_ready THEN <<"on_data_ready(error)">> ELSE <<>>
          /\ UNCHANGED <<results_csv, waveforms>>
          /\ \E s \in Sweeps : proc_threads[s].pc = "get" /\ proc_threads'[s].pc = "get"]_vars

C14_StepIndexEverywhere ==
    (handled.n > 0 /\ handled.kind = "ok") =>
        /\ handled.step \in 1..handled.total
        /\ status.current_step = handled.step /\ status.total_steps = handled.total
        /\ handled.result_step = handled.step
        /\ handled.saved_step = handled.step

\* C15: the run's files have one writer at a time: at most one processing
\* loop is alive, the table and the bundles change only in a step of a
\* processing loop handling a job, the table handle is released only by a
\* processing loop at its close_run, and init_run creates or opens a run only
\* when every processing loop started before has finished and the table
\* handle has been released.
C15_NoConcurrentWriters ==
    /\ [](Cardinality({s \in Sweeps : Alive(proc_threads[s])}) <= 1)
    /\ [][/\ (results_csv' # results_csv \/ waveforms' # waveforms) =>
                 \E s \in Sweeps : /\ proc_threads[s].pc = "get"
                                    /\ handled'.n = handled.n + 1
          /\ (csv_handle # 0 /\ csv_handle' = 0) =>
                 \E s \in Sweeps : /\ proc_threads[s].pc = "close"
                                    /\ proc_threads'[s].pc = "finish"
          /\ (run_count' # run_count \/ current_run_dir' # current_run_dir
                 \/ (csv_handle' # csv_handle /\ csv_handle' # 0)) =>
                 /\ \A s \in Sweeps : proc_threads[s].pc \in {"none", "done"}
                 /\ csv_handle = 0]_vars

C15_Witness ==
    /\ run_count = 2 /\ csv_handle = 2
    /\ proc_threads[1].pc = "done" /\ proc_threads[2].pc = "get"
    /\ Alive(acq_threads[1]) /\ Alive(acq_threads[2])

\* C16: within a run every step index has at most one row in the table and
\* at most one bundle, and has a row exactly when it has a bundle, whatever
\* save_point calls were made and wherever they failed.
C16_RowIffBundle ==
    \A r \in Sweeps, k \in 1..MaxPoints :
        LET rows == {i \in 1..Len(results_csv) : results_csv[i] = [run |-> r, step |-> k]}
        IN /\ Cardinality(rows) <= 1
           /\ rows # {} <=> [run |-> r, step |-> k] \in waveforms

Range(seq) == {seq[i] : i \in DOMAIN seq}
Count(seq, x) == Cardinality({i \in DOMAIN seq : seq[i] = x})
Generated == returned.fn = "_generate_parameters" /\ ~returned.raised
Vals1(config) ==
    get_values(config.dim1_type, config.start, config.stop, config.step, config.custom_list,
               config.param_type).vals
Vals2(config) ==
    get_values(config.dim2_type, config.dim2_start, config.dim2_stop, config.dim2_step,
               config.dim2_list, "float").vals

\* C17: for a linear range with step > 0 and declared type float or int,
\* get_values returns floor(|stop - start| / step) + 1 values and every two
\* consecutive values differ by exactly step.
C17_RangeCountAndSpacing ==
    (returned.fn = "get_values" /\ call.ptype = "range" /\ call.step > 0) =>
        /\ Len(returned.value) = (Abs(call.stop - call.start) \div call.step) + 1
        /\ \A k \in 1..(Len(returned.value) - 1) :
               returned.value[k + 1] - returned.value[k] = call.step

\* C18: the list returned with randomize on has the length of the list
\* returned for the same configuration with randomize off, and holds every
\* tuple as many times.
C18_ShufflePermutes ==
    (Generated /\ call.config.randomize) =>
        \A plain \in Returns([call.config EXCEPT !.randomize = FALSE]) :
            /\ Len(returned.value) = Len(plain)
            /\ \A x \in Range(plain) \cup Range(returned.value) :
                   Count(returned.value, x) = Count(plain, x)

C18_Witness ==
    /\ Generated /\ call.config.randomize
    /\ Len(returned.value) >= 3
    /\ returned.value \notin Returns([call.config EXCEPT !.randomize = FALSE])
    /\ \E x \in Range(returned.value) : Count(returned.value, x) = 2

\* C19: with randomize off (and averages >= 0) the list has n1 * n2 *
\* averages tuples, n1 the number of dimension-1 values and n2 the number of
\* dimension-2 values or 1 when dimension 2 is disabled; tuple number i is
\* built from dimension-1 value ((i-1) mod (n1*n2)) div n2 and dimension-2
\* value ((i-1) mod (n1*n2)) mod n2: dimension 1 outermost, the whole cross
\* product repeated in the same order.
C19_CrossProductOrder ==
    (Generated /\ ~call.config.randomize) =>
        LET config == call.config
            n1 == Len(Vals1(config))
            n2 == IF config.dim2_enabled THEN Len(Vals2(config)) ELSE 1
        IN  /\ Len(returned.value) = n1 * n2 * config.averages
            /\ \A i \in 1..Len(returned.value) :
                   LET pos == (i - 1) % (n1 * n2)
                       tuple == returned.value[i]
                   IN  /\ tuple[1] = Vals1(config)[(pos \div n2) + 1]
                       /\ config.dim2_enabled =>
                              tuple[Len(tuple)] = Vals2(config)[(pos % n2) + 1]

C19_Witness ==
    /\ Generated /\ ~call.config.randomize /\ call.config.dim2_enabled
    /\ call.config.averages = 2 /\ Len(returned.value) = 4
    /\ returned.value[1] # returned.value[2] /\ returned.value[1] = returned.value[3]

\* C20 as stated: the tuple starts with the dimension-1 value v and goes on
\* with nothing in standard mode, mode_param - v in timing mode, half of
\* mode_param - half of v in rabi mode and v / 2 in half mode; the
\* dimension-2 value, when enabled, is the last entry.
C20_TupleByModeAsStated ==
    Generated =>
        \A i \in 1..Len(returned.value) :
            LET config == call.config
                tuple == returned.value[i]
                v == tuple[1]
                extra == IF config.dim2_enabled THEN 1 ELSE 0
            IN  /\ v \in Range(Vals1(config))
                /\ config.mode = "standard" => Len(tuple) = 1 + extra
                /\ config.mode = "timing" =>
                       Len(tuple) = 2 + extra /\ tuple[2] = config.mode_param - v
                /\ config.mode = "rabi" =>
                       /\ Len(tuple) = 2 + extra
                       /\ tuple[2] = Halved(config.mode_param) - Halved(v)
                /\ config.mode = "half" => Len(tuple) = 2 + extra /\ tuple[2] = Halved(v)
                /\ config.dim2_enabled => tuple[Len(tuple)] \in Range(Vals2(config))

\* C20: the tuple starts with the dimension-1 value v and goes on with
\* nothing in standard mode, round(mode_param - v, 6) in timing mode,
\* round(mode_param - v / 2, 6) in rabi mode (mode_param is not halved) and
\* round(v / 2, 6) in half mode; the dimension-2 value, when enabled, is the
\* last entry.
C20_TupleByMode ==
    Generated =>
        \A i \in 1..Len(returned.value) :
            LET config == call.config
                tuple == returned.value[i]
                v == tuple[1]
                extra == IF config.dim2_enabled THEN 1 ELSE 0
            IN  /\ v \in Range(Vals1(config))
                /\ config.mode = "standard" => Len(tuple) = 1 + extra
                /\ config.mode = "timing" =>
                       Len(tuple) = 2 + extra /\ tuple[2] = Round6(config.mode_param - v)
                /\ config.mode = "rabi" =>
                       /\ Len(tuple) = 2 + extra
                       /\ tuple[2] = Round6(config.mode_param - Halved(v))
                /\ config.mode = "half" =>
                       Len(tuple) = 2 + extra /\ tuple[2] = Round6(Halved(v))
                /\ config.dim2_enabled => tuple[Len(tuple)] \in Range(Vals2(config))

C20_Witness ==
    /\ Generated /\ call.config.mode = "rabi" /\ call.config.dim2_enabled
    /\ call.config.mode_param = 3 * One + 3
    /\ \E i \in 1..Len(returned.value) :
          returned.value[i] = <<One, 3 * One - One \div 2, One>>

\* What a trace says, read off its lines without the parser: the exponent
\* of the unit its "$timescale" declares (on that line or on the one after
\* it), the time of each line (the last timestamp above it, 0 if none),
\* and a signal's first rising edge, the first change to a voltage above
\* the threshold that does not follow a high value of the same signal.
UnitExp(unit) ==
    IF unit = "ps" THEN -12 ELSE IF unit = "ns" THEN -9 ELSE IF unit = "us" THEN -6 ELSE -3
DeclaresUnit(vcd) == \E i \in DOMAIN vcd.lines : vcd.lines[i].k = "$timescale"
DeclaredExp(vcd) ==
    UnitExp(vcd.lines[CHOOSE i \in DOMAIN vcd.lines : vcd.lines[i].k = "$timescale"].unit)
TableOf(vcd) == {i \in DOMAIN vcd.lines : vcd.lines[i].k = "$var"}
WellFormed(vcd) == vcd.readable /\ \A i \in TableOf(vcd) : vcd.lines[i].parts = 6
CodeOf(vcd, id) ==
    IF \E i \in TableOf(vcd) : vcd.lines[i].name = id.text
    THEN vcd.lines[CHOOSE i \in TableOf(vcd) : vcd.lines[i].name = id.text].code
    ELSE IF \E i \in TableOf(vcd) : vcd.lines[i].code = id.text THEN id.text
    ELSE ""
TimeAt(vcd, i) ==
    LET stamps == {j \in 1..i : vcd.lines[j].k = "#"}
    IN  IF stamps = {} THEN 0
        ELSE vcd.lines[CHOOSE j \in stamps : \A m \in stamps : m <= j].t
ChangesOf(vcd, code) ==
    {i \in DOMAIN vcd.lines : vcd.lines[i].k = "change" /\ vcd.lines[i].code = code}
HighAt(vcd, i) == is_high(parse_vcd_val(vcd.lines[i].val))
RisesOf(vcd, code) ==
    {i \in ChangesOf(vcd, code) :
        /\ HighAt(vcd, i)
        /\ \A j \in ChangesOf(vcd, code) :
              (j < i /\ \A m \in ChangesOf(vcd, code) : ~(j < m /\ m < i)) => ~HighAt(vcd, j)}
HasRise(vcd, code) == RisesOf(vcd, code) # {}
FirstRise(vcd, code) ==
    TimeAt(vcd, CHOOSE i \in RisesOf(vcd, code) : \A m \in RisesOf(vcd, code) : i <= m)
DelayReturned == returned.fn = "_calculate_delay_from_vcd"

\* C21: for a trace in which both identifiers resolve and both signals have
\* a rising edge, the delay returned is the time of signal 2's first rising
\* edge minus that of signal 1's, in the unit the trace declares; and no
\* line added after both edges changes the delay.
C21_DelayIsEdgeDifference ==
    (/\ DelayReturned
     /\ WellFormed(call.vcd)
     /\ DeclaresUnit(call.vcd)
     /\ CodeOf(call.vcd, call.launch_id) # ""
     /\ CodeOf(call.vcd, call.trigger_id) # ""
     /\ HasRise(call.vcd, CodeOf(call.vcd, call.launch_id))
     /\ HasRise(call.vcd, CodeOf(call.vcd, call.trigger_id)))
    => /\ ~returned.raised
       /\ returned.value =
             Seconds(FirstRise(call.vcd, CodeOf(call.vcd, call.trigger_id))
                       - FirstRise(call.vcd, CodeOf(call.vcd, call.launch_id)),
                     DeclaredExp(call.vcd))
       /\ \A line \in BodyLines :
             calculate_delay_from_vcd([call.vcd EXCEPT !.lines = Append(@, line)],
                                      call.launch_id, call.trigger_id).delta
               = returned.value

\* The trace cannot be read or parsed, or one of the two identifiers is
\* not in its table.
NoDelayToRead ==
    \/ ~WellFormed(call.vcd)
    \/ CodeOf(call.vcd, call.launch_id) = ""
    \/ CodeOf(call.vcd, call.trigger_id) = ""

\* C22: if an identifier does not resolve or the trace cannot be read or
\* parsed, the delay calculation raises nothing and returns 0.0, and the
\* acquisition loop goes on with the tuple: it runs the executor and, the
\* executor reporting success, acquires both channels and puts the job on
\* the queue with a start delay of zero.
C22_NoDelayIsZeroDelay ==
    /\ (DelayReturned /\ NoDelayToRead)
          => (~returned.raised /\ returned.value = Seconds(0, 0))
    /\ (returned.fn = "_acquisition_loop" /\ ~call.USE_SIMULATION /\ NoDelayToRead)
          => /\ ~returned.raised
             /\ returned.ran = 1
             /\ call.success =>
                   (returned.acquired = 2 /\ returned.put = <<[start_delay |-> Seconds(0, 0)]>>)

C22_Witness ==
    /\ returned.fn = "_acquisition_loop"
    /\ ~call.USE_SIMULATION
    /\ ~call.vcd.readable
    /\ call.success
    /\ returned.put = <<[start_delay |-> Seconds(0, 0)]>>

\* The time of a signal's first rising edge, zero if it has none.
EdgeOrZero(vcd, code) == IF HasRise(vcd, code) THEN FirstRise(vcd, code) ELSE 0

\* C23: when one of the two resolved signals has no rising edge in the
\* trace, nothing is raised and the delay returned is the trigger's first
\* edge time minus the launch's, with zero for a missing edge, in the
\* unit the trace declares: the trigger's edge time if the launch edge is
\* missing, minus the launch's if the trigger edge is missing, 0 if both.
C23_MissingEdgeIsZero ==
    (/\ DelayReturned
     /\ WellFormed(call.vcd)
     /\ DeclaresUnit(call.vcd)
     /\ CodeOf(call.vcd, call.launch_id) # ""
     /\ CodeOf(call.vcd, call.trigger_id) # ""
     /\ \/ ~HasRise(call.vcd, CodeOf(call.vcd, call.launch_id))
        \/ ~HasRise(call.vcd, CodeOf(call.vcd, call.trigger_id)))
    => /\ ~returned.raised
       /\ returned.value =
             Seconds(EdgeOrZero(call.vcd, CodeOf(call.vcd, call.trigger_id))
                       - EdgeOrZero(call.vcd, CodeOf(call.vcd, call.launch_id)),
                     DeclaredExp(call.vcd))

\* C24: perform_odr_fit raises nothing and returns (None, None) when x and
\* y differ in length, when both are empty, or when the solver fails.
C24_NoFitNeverRaises ==
    (/\ returned.fn = "perform_odr_fit"
     /\ call.x_len # -1 /\ call.y_len # -1
     /\ \/ call.x_len # call.y_len
        \/ call.x_len = 0 /\ call.y_len = 0
        \/ call.solver = "raises")
    => (~returned.raised /\ returned.value = NonePair)

\* C25: calculate_atom_numbers returns (None, None) exactly when neither
\* amplitude is above max_low, and otherwise
\* ((areaUp - areaDw*alpha)*K, (areaDw - areaUp*beta)*R*K).
C25_AtomNumbers ==
    returned.fn = "calculate_atom_numbers"
    => /\ returned.value = NonePair
          <=> (call.max_vol_up <= call.max_low /\ call.max_vol_dw <= call.max_low)
       /\ returned.value # NonePair
          => /\ returned.value[1] = Some((call.area_up - call.area_dw * call.alpha) * call.K)
             /\ returned.value[2]
                  = Some((call.area_dw - call.area_up * call.beta) * call.R * call.K)

C25_Witness ==
    /\ returned.fn = "calculate_atom_numbers"
    /\ call.max_vol_up > call.max_low
    /\ call.max_vol_dw <= call.max_low
    /\ call.alpha > 0 /\ call.area_dw > 0
    /\ returned.value[1].v < 0

\* C26: calculate_probabilities returns (None, None) if a count is absent,
\* (0, 0) if the counts sum to zero, and otherwise each count as a
\* percentage of the sum, the two percentages adding up to 100.
C26_Probabilities ==
    returned.fn = "calculate_probabilities"
    => LET p2 == returned.value[1]
           p1 == returned.value[2]
           total == call.n_f2.v + call.n_f1.v
       IN  IF call.n_f2.none \/ call.n_f1.none THEN returned.value = NonePair
           ELSE /\ ~p2.none /\ ~p1.none
                /\ IF total = 0 THEN p2.v.num = 0 /\ p1.v.num = 0
                   ELSE /\ p2.v.num * total = 100 * call.n_f2.v * p2.v.den
                        /\ p1.v.num * total = 100 * call.n_f1.v * p1.v.den
                        /\ p2.v.num * p1.v.den + p1.v.num * p2.v.den
                             = 100 * p2.v.den * p1.v.den

C26_Witness ==
    /\ returned.fn = "calculate_probabilities"
    /\ ~call.n_f2.none /\ ~call.n_f1.none
    /\ call.n_f2.v = 1 /\ call.n_f1.v = 2
    /\ returned.value[1] = Some([num |-> 100, den |-> 3])

\* C27: at most one acquisition loop is executing at any time, and while
\* is_running is false no acquisition loop is executing or has anything
\* left to put on the queue.
C27_OneAcquisitionLoop ==
    /\ Cardinality({s \in Sweeps : Alive(acq_threads[s])}) <= 1
    /\ ~status.is_running => \A s \in Sweeps : ~Alive(acq_threads[s])

\* The processing loop of sweep s takes the head of the queue.
Dequeues(s) ==
    /\ proc_threads[s].pc = "get"
    /\ data_queue # <<>>
    /\ data_queue' = Tail(data_queue)
    /\ \/ proc_threads'[s].pc = "close"
       \/ handled'.n = handled.n + 1

\* C28: whatever the processing loop of a sweep takes from the queue, job
\* or sentinel, was put there by the acquisition loop of the same sweep.
C28_OwnItemsOnly ==
    [][\A s \in Sweeps : Dequeues(s) => Head(data_queue).src = s]_vars

\* C29: a start_scan call that finds no sweep running and returns an error
\* leaves is_running false.
C29_FailedStartNotRunning ==
    [][(/\ response' # response
        /\ response'.op = "start_scan"
        /\ response'.status = "error"
        /\ ~status.is_running) => ~status'.is_running]_vars

\* C30: an acquisition loop that ends because a call made for a tuple
\* raised has put its sentinel.
C30_SentinelAfterRaise ==
    \A s \in Sweeps : acq_threads[s].pc = "crashed" => enqueued[s].sentinels = 1

\* line 44: data_queue = queue.Queue(), built without a maxsize. A maxsize
\* of 0, the default, makes a queue without capacity: put never waits.
maxsize == 0

\* C32: the queue has a fixed capacity, which the number of queued items
\* never exceeds.
C32_QueueBounded == maxsize > 0 /\ Len(data_queue) <= maxsize

\* A step of a processing loop: it moves on, or it handles a job.
ProcessingLoopStep == proc_threads' # proc_threads \/ handled' # handled

\* C33: while a sweep is running only steps of the processing loop change
\* the status record.
C33_StatusWrittenByProcessingLoop ==
    [][(/\ status.is_running
        /\ \E s \in Sweeps : Alive(proc_threads[s])
        /\ status' # status) => ProcessingLoopStep]_vars


\* C37: every value of a linear range lies between start and stop, ends
\* included, whichever of the two is larger and whatever the sign of step.
C37_RangeBetweenEnds ==
    (returned.fn = "get_values" /\ call.ptype = "range") =>
        \A k \in 1..Len(returned.value) :
            /\ returned.value[k] >= (IF call.start <= call.stop THEN call.start ELSE call.stop)
            /\ returned.value[k] <= (IF call.start <= call.stop THEN call.stop ELSE call.start)


\* C31: when the compiler reports failure for a tuple the point is skipped:
\* the executor is not run, no channel is acquired and no job is queued.
C31_CompileFailureSkipsPoint ==
    (returned.fn = "_acquisition_loop" /\ ~call.compiled) =>
        (returned.ran = 0 /\ returned.acquired = 0 /\ returned.put = <<>>)


\* The trace without the value changes of codes other than the two given.
Tracked(vcd, code_launch, code_trigger) ==
    [vcd EXCEPT !.lines = SelectSeq(vcd.lines,
        LAMBDA line : line.k = "change" => line.code \in {code_launch, code_trigger})]

\* C36: value changes of codes other than the two resolved codes do not
\* affect the delay (the trace without them gives the same delay), and each
\* change of a tracked code counts for its own signal only: the delay is
\* the first rising edge of the trigger's own changes minus that of the
\* launch's own changes, zero standing for a missing edge.
C36_OnlyOwnEvents ==
    (/\ DelayReturned
     /\ WellFormed(call.vcd)
     /\ CodeOf(call.vcd, call.launch_id) # ""
     /\ CodeOf(call.vcd, call.trigger_id) # "")
    => LET code_launch == CodeOf(call.vcd, call.launch_id)
           code_trigger == CodeOf(call.vcd, call.trigger_id)
       IN  /\ returned.value =
                 calculate_delay_from_vcd(Tracked(call.vcd, code_launch, code_trigger),
                                          call.launch_id, call.trigger_id).delta
           /\ code_launch # code_trigger =>
                 \E exp \in {-9, -6, -3} :
                     returned.value = Seconds(EdgeOrZero(call.vcd, code_trigger)
                                                - EdgeOrZero(call.vcd, code_launch), exp)


\* The samples of the call whose time lies in the configured window.
InWindow ==
    {i \in DOMAIN call.t :
        /\ call.t[i] >= 2 * call.center_ms - call.width_ms
        /\ call.t[i] <= 2 * call.center_ms + call.width_ms}
FirstInWindow == CHOOSE i \in InWindow : \A j \in InWindow : i <= j

\* C35: the samples given to the fitter are those with time in
\* [centre - width/2, centre + width/2] when the width is > 0 and some sample
\* lies in that interval, and the window recorded is that interval;
\* otherwise the full trace is given and the window is absent, saved as
\* [-1, -1]. The selection given to the fitter is never empty.
C35_FitWindow ==
    returned.fn = "get_fit_data" =>
        /\ (call.width_ms > 0 /\ InWindow # {}) =>
              /\ Len(returned.t) = Cardinality(InWindow)
              /\ Len(returned.v) = Cardinality(InWindow)
              /\ \A k \in 1..Cardinality(InWindow) :
                    /\ returned.t[k] = call.t[FirstInWindow + k - 1]
                    /\ returned.v[k] = call.v[FirstInWindow + k - 1]
              /\ ~returned.window.none
              /\ window_saved(returned.window)
                    = <<2 * call.center_ms - call.width_ms, 2 * call.center_ms + call.width_ms>>
        /\ ~(call.width_ms > 0 /\ InWindow # {}) =>
              /\ returned.t = call.t
              /\ returned.v = call.v
              /\ returned.window.none
              /\ window_saved(returned.window) = <<-1, -1>>
        /\ returned.t # <<>>
        /\ returned.v # <<>>

\* A window that holds some of the samples but not all of them was used.
C35_Witness ==
    /\ returned.fn = "get_fit_data"
    /\ ~returned.window.none
    /\ Len(returned.t) >= 2
    /\ Len(returned.t) < Len(call.t)

\* The 0-based indices from the peak on at which the scan may stop: the
\* sample is at or below half the peak height above the baseline, or the
\* index has reached the last but one.
PeakOfCall == IF call.pkidx.none THEN ArgMax(call.func) ELSE call.pkidx.v
StopsOfCall ==
    {i \in PeakOfCall..(Len(call.func) - 1) :
        \/ 2 * (call.func[i + 1] - SeqMin(call.func)) <= SeqMax(call.func) - SeqMin(call.func)
        \/ i >= Len(call.func) - 2}

NoFitZeros(ch) ==
    ~ch.fitted =>
        /\ ch.amp = 0 /\ ch.sig = 0 /\ ch.cen = 0
        /\ \A i \in DOMAIN ch.fit_curve : ch.fit_curve[i] = 0
        /\ ch.sig_nf > 0

\* C34: when the fit of a channel yields no fit, the point is still saved
\* and published: that channel's fitted amplitude, width and centre are 0,
\* its fitted curve is all zeros, and the no-fit metrics are those of the
\* samples.
C34_NoFitPointSaved ==
    (/\ returned.fn = "_processing_loop"
     /\ call.run_open
     /\ ~returned.up.fitted \/ ~returned.dw.fitted)
    => /\ returned.built
       /\ returned.saved
       /\ call.sink => returned.published
       /\ NoFitZeros(returned.up)
       /\ NoFitZeros(returned.dw)

====
